---- MODULE Spec2Model ----
(***************************************************************************)
(* Energy-intelligence pipeline of smart-energy-optimizer:                 *)
(*   RealEnergyManagementOrchestrator (device / reading store, control),   *)
(*   EnergyOptimizationAgent, EnergyPredictionAgent and the fallbacks of   *)
(*   WatsonxService.                                                       *)
(*                                                                         *)
(* Number conventions.  JavaScript numbers are modelled as integers:       *)
(*   watts as integers, money in cents, confidence in hundredths, hour     *)
(*   multipliers in tenths, the random jitter in percent.  NaN is the      *)
(*   sentinel NaN and an absent field the sentinel Undefined; comparisons  *)
(*   with either are false as in JavaScript.  Quotients that the code      *)
(*   leaves unrounded are kept as fractions [n, d]; d = 0 stands for       *)
(*   Infinity (n > 0) or NaN (n = 0).  Floating point rounding error is    *)
(*   not modelled.                                                         *)
(* The per-device todaysUsage / todaysCost accumulators are not modelled:  *)
(*   no operation reads them.                                              *)
(***************************************************************************)
EXTENDS Integers, Sequences, FiniteSets, TLC

VARIABLES
    devices,                \* RealEnergyManagementOrchestrator.devices (list)
    energyReadings,         \* RealEnergyManagementOrchestrator.energyReadings
    tickCount,              \* number of readings produced so far (timestamp order)
    commandCount,           \* number of control commands and applications so far
    hour,                   \* new Date().getHours()
    hoursElapsed,           \* hours passed since the start
    bcast,                  \* broadcast events emitted by the last step
    ret,                    \* result handed to the caller by the last step
    recommendations,        \* EnergyOptimizationAgent.recommendations
    appliedRecommendations, \* EnergyOptimizationAgent.appliedRecommendations
    savingsTracked,         \* EnergyOptimizationAgent.savingsTracked (cents)
    optCycle,               \* the optimization cycle waiting for the LLM, if any
    predictions,            \* EnergyPredictionAgent.predictions
    fcCycle,                \* the forecast cycle waiting for the LLM, if any
    startup,                \* position of startAIAgents
    initialPass,            \* generateInitialRecommendations: pending or done
    lastAnalysis,           \* EnergyMonitorAgent.lastAnalysis
    monCycle,               \* the analysis cycle waiting for the LLM, if any
    apiKey,                 \* WatsonxService.apiKey is set (WATSONX_API_KEY)
    client,                 \* per agent: the call of its WatsonxService in flight
    accessToken,            \* per agent: its WatsonxService holds a token
    tokenExpiry,            \* per agent: WatsonxService.tokenExpiry, 0 for null
    now,                    \* Date.now(), in minutes
    netRequests,            \* number of network requests issued so far
    agentStatus,            \* RealEnergyManagementOrchestrator.agentStatus
    healthReport            \* data of the last system_health broadcast

vars == <<devices, energyReadings, tickCount, commandCount, hour, hoursElapsed, bcast, ret,
          recommendations, appliedRecommendations, savingsTracked, optCycle,
          predictions, fcCycle, startup, initialPass, lastAnalysis, monCycle, apiKey,
          client, accessToken, tokenExpiry, now, netRequests, agentStatus,
          healthReport>>

devVars == <<devices>>
clockVars == <<hour, hoursElapsed>>
histVars == <<energyReadings, tickCount>>
optVars == <<recommendations, appliedRecommendations, savingsTracked, optCycle>>
fcVars == <<predictions, fcCycle>>
monVars == <<lastAnalysis, monCycle>>
llmVars == <<client, accessToken, tokenExpiry, now, netRequests>>
healthVars == <<agentStatus, healthReport>>

----------------------------------------------------------------------------
(* Sentinels and bounds *)

NaN == -1
Undefined == -2

\* readings kept by updateDeviceReadings
HistoryCapacity == 1000

\* bound on the number of ticks explored
MaxTicks == 2

\* bound on the number of ticks explored by the history specification
MaxHistTicks == 1003

\* bound on the number of hours that pass
MaxHoursElapsed == 1

\* the forecast specification lets the hour turn after every so many ticks
HourTurnEvery == 24

\* bound on the number of ticks explored by the forecast specification
MaxFcTicks == 48

\* bound on the number of control commands and applications explored
MaxCommands == 2

\* random factor 0.8 + Math.random() * 0.4, in percent
Jitter == {80, 100, 119}

\* the random factors drawn by one tick, one per device
JitterDraws == {<<80, 80, 80, 80>>, <<119, 80, 100, 119>>}

Hours == 0 .. 23

\* hours the device store specification starts at: one per time-of-day multiplier
StoreHours == {3, 12, 18}

----------------------------------------------------------------------------
(* Device store *)

NoDevice == [id |-> "none", type |-> "none", isOn |-> FALSE, currentPower |-> 0,
             targetTemp |-> Undefined, brightness |-> Undefined]

initializeMockDevices ==
    << [id |-> "hvac_001", type |-> "hvac", isOn |-> TRUE, currentPower |-> 2800,
        targetTemp |-> 72, brightness |-> Undefined],
       [id |-> "water_heater_001", type |-> "water_heater", isOn |-> TRUE,
        currentPower |-> 3200, targetTemp |-> Undefined, brightness |-> Undefined],
       [id |-> "lighting_001", type |-> "lighting", isOn |-> TRUE,
        currentPower |-> 180, targetTemp |-> Undefined, brightness |-> 100],
       [id |-> "washer_001", type |-> "appliance", isOn |-> FALSE,
        currentPower |-> 0, targetTemp |-> Undefined, brightness |-> Undefined] >>

DeviceIds == {"hvac_001", "water_heater_001", "lighting_001", "washer_001"}

\* an id no device has
GhostId == "ghost_001"

\* Array.prototype.find on the device list: index of the first match, 0 if none
FindDevice(devs, deviceId) ==
    IF \E i \in 1 .. Len(devs) : devs[i].id = deviceId
    THEN CHOOSE i \in 1 .. Len(devs) :
            /\ devs[i].id = deviceId
            /\ \A j \in 1 .. (i - 1) : devs[j].id # deviceId
    ELSE 0

\* JavaScript arithmetic on numbers that may be NaN
IsNum(x) == x # NaN /\ x # Undefined
Plus(a, b) == IF IsNum(a) /\ IsNum(b) THEN a + b ELSE NaN
GT(a, b) == IsNum(a) /\ IsNum(b) /\ a > b

\* truthiness of a number
Truthy(x) == IsNum(x) /\ x # 0

getBaseUsage(deviceType) ==
    CASE deviceType = "hvac" -> 3000
      [] deviceType = "water_heater" -> 4000
      [] deviceType = "lighting" -> 200
      [] deviceType = "appliance" -> 1500
      [] OTHER -> 1000

\* time-of-day multiplier, in tenths
getTimeMultiplier(h) ==
    IF (h >= 7 /\ h <= 9) \/ (h >= 18 /\ h <= 21) THEN 18
    ELSE IF h >= 23 \/ h <= 6 THEN 3
    ELSE 10

\* Math.round of x / 1000 for x >= 0
RoundDiv1000(x) == (x + 500) \div 1000

\* devices.reduce((sum, d) => sum + d.currentPower, 0)
RECURSIVE TotalPowerUpTo(_, _)
TotalPowerUpTo(devs, n) ==
    IF n = 0 THEN 0 ELSE Plus(TotalPowerUpTo(devs, n - 1), devs[n].currentPower)

TotalPower(devs) == TotalPowerUpTo(devs, Len(devs))

----------------------------------------------------------------------------
(* Values carried by control commands: strings or numbers *)

NumStr(n) == [kind |-> "numstr", n |-> n, text |-> ""]
Text(t) == [kind |-> "text", n |-> 0, text |-> t]
Num(n) == [kind |-> "num", n |-> n, text |-> ""]
NullValue == [kind |-> "null", n |-> 0, text |-> ""]

\* parseInt: a decimal string gives its number, "23:00" its leading digits,
\* anything else (null, "auto", "continue") NaN
parseInt(v) ==
    CASE v.kind = "numstr" -> v.n
      [] v.kind = "num" -> v.n
      [] v.kind = "text" /\ v.text = "23:00" -> 23
      [] OTHER -> NaN

\* (currentPower / brightness) * value as JavaScript evaluates it
RescalePower(power, brightness, value) ==
    IF ~IsNum(power) \/ ~IsNum(brightness) \/ ~IsNum(value) THEN NaN
    ELSE IF brightness = 0 THEN NaN          \* x/0 * 0, 0/0 * v: NaN; x/0 * v: Infinity
    ELSE (power * value) \div brightness

\* the switch of controlDevice with set_temperature applied to a device of
\* any type
ApplyControlAnyType(device, action, value) ==
    CASE action = "toggle" -> [device EXCEPT !.isOn = ~device.isOn]
      [] action = "turn_on" -> [device EXCEPT !.isOn = TRUE]
      [] action = "turn_off" -> [device EXCEPT !.isOn = FALSE]
      [] action = "set_temperature" -> [device EXCEPT !.targetTemp = parseInt(value)]
      [] action = "set_brightness" ->
            IF device.type = "lighting"
            THEN [device EXCEPT !.brightness = parseInt(value),
                                !.currentPower = RescalePower(device.currentPower,
                                                    parseInt(value), parseInt(value))]
            ELSE device
      [] OTHER -> device

\* the switch of controlDevice applied to one device
ApplyControl(device, action, value) ==
    CASE action = "toggle" -> [device EXCEPT !.isOn = ~device.isOn]
      [] action = "turn_on" -> [device EXCEPT !.isOn = TRUE]
      [] action = "turn_off" -> [device EXCEPT !.isOn = FALSE]
      [] action = "set_temperature" ->
            IF device.type = "hvac"
            THEN [device EXCEPT !.targetTemp = parseInt(value)]
            ELSE device
      [] action = "set_brightness" ->
            IF device.type = "lighting"
            THEN \* brightness is assigned first, the rescale then divides by
                 \* the value just stored
                 [device EXCEPT !.brightness = parseInt(value),
                                !.currentPower = RescalePower(device.currentPower,
                                                    parseInt(value), parseInt(value))]
            ELSE device
      [] OTHER -> device

\* controlDevice without the not-found return: the update is reported and
\* broadcast although no device matched
ControlResultNoLookupCheck(devs, deviceId, action, value) ==
    LET i == FindDevice(devs, deviceId) IN
    [devices |-> IF i = 0 THEN devs
                 ELSE [devs EXCEPT ![i] = ApplyControl(devs[i], action, value)],
     success |-> TRUE,
     events |-> << "device_update" >>]

\* controlDevice as a function: the new device list, the result and the events
ControlResult(devs, deviceId, action, value) ==
    LET i == FindDevice(devs, deviceId) IN
    IF i = 0
    THEN [devices |-> devs, success |-> FALSE, events |-> << >>]
    ELSE [devices |-> [devs EXCEPT ![i] = ApplyControl(devs[i], action, value)],
          success |-> TRUE,
          events |-> << "device_update" >>]

----------------------------------------------------------------------------
(* Recommendations *)

\* estimatedTime strings: "<n> minutes", "<n> seconds", absent, or a JSON number
Minutes(n) == [n |-> n, unit |-> "minute"]
Seconds(n) == [n |-> n, unit |-> "second"]
NoTime == [n |-> 0, unit |-> "absent"]
NumberTime(n) == [n |-> n, unit |-> "number"]

\* a raw recommendation; potentialSavings in cents; the derived fields are
\* Undefined until enhanceRecommendations / prioritizeRecommendations set them.
\* An absent affected_devices is the empty list: the code treats both alike
Rec(id, category, savings, priority, difficulty, time, devs, action, value, source) ==
    [id |-> id, category |-> category, potentialSavings |-> savings,
     priority |-> priority, difficulty |-> difficulty, estimatedTime |-> time,
     devices |-> devs, action |-> action, value |-> value, source |-> source,
     urgency_score |-> Undefined, feasibility_score |-> Undefined,
     comfort_impact |-> Undefined, estimated_implementation_time |-> NoTime,
     affected_devices |-> << >>,
     composite_score |-> Undefined, rank |-> Undefined]

\* devices.find(d => d.type === type && d.isOn === on): index or 0
FindByTypeAndState(devs, type, on) ==
    IF \E i \in 1 .. Len(devs) : devs[i].type = type /\ devs[i].isOn = on
    THEN CHOOSE i \in 1 .. Len(devs) :
            /\ devs[i].type = type /\ devs[i].isOn = on
            /\ \A j \in 1 .. (i - 1) : ~(devs[j].type = type /\ devs[j].isOn = on)
    ELSE 0

\* devices.reduce((max, device) => device.currentPower > max.currentPower ? device : max)
RECURSIVE MaxPowerIdxUpTo(_, _)
MaxPowerIdxUpTo(devs, n) ==
    IF n = 1 THEN 1
    ELSE LET m == MaxPowerIdxUpTo(devs, n - 1) IN
         IF GT(devs[n].currentPower, devs[m].currentPower) THEN n ELSE m

getOptimizationAction(device) ==
    CASE device.type = "hvac" -> "set_temperature"
      [] device.type = "lighting" -> "set_brightness"
      [] device.type = "water_heater" -> "set_temperature"
      [] device.type = "appliance" -> "schedule"
      [] OTHER -> "optimize"

Max(a, b) == IF a > b THEN a ELSE b

Min(a, b) == IF a < b THEN a ELSE b

getOptimizationValue(device) ==
    CASE device.type = "hvac" ->
            IF Truthy(device.targetTemp) THEN NumStr(device.targetTemp - 2)
            ELSE NumStr(70)
      [] device.type = "lighting" ->
            IF Truthy(device.brightness) THEN NumStr(Max(50, device.brightness - 20))
            ELSE NumStr(75)
      [] device.type = "water_heater" -> NumStr(115)
      [] device.type = "appliance" -> Text("23:00")
      [] OTHER -> Text("auto")

\* a peak window that ends after its first hour
InPeakWindowFirstHourOnly(currentHour) == currentHour = 17

\* currentHour >= 17 && currentHour <= 19: the peak window of both fallbacks
InPeakWindow(currentHour) == currentHour >= 17 /\ currentHour <= 19

\* one smart_light recommendation per bright light, in device order
RECURSIVE BrightLightRecs(_, _)
BrightLightRecs(devs, n) ==
    IF n = 0 THEN << >>
    ELSE LET d == devs[n]
             rest == BrightLightRecs(devs, n - 1)
         IN IF d.type = "lighting" /\ d.isOn /\ Truthy(d.brightness) /\ GT(d.brightness, 85)
            THEN Append(rest, Rec("smart_light_" \o d.id, "lighting", 40, "low", "easy",
                                  Seconds(30), << d.id >>, "set_brightness",
                                  NumStr(75), "smart_fallback"))
            ELSE rest

\* EnergyOptimizationAgent.generateSmartFallbackRecommendations
generateSmartFallbackRecommendations(devs, currentHour) ==
    LET totalUsage == TotalPower(devs)
        high == devs[MaxPowerIdxUpTo(devs, Len(devs))]
        highUsage ==
            IF GT(totalUsage, 3000) /\ GT(high.currentPower, 2000)
            THEN << Rec("smart_high_usage", high.type, 150, "high", "easy", Minutes(3),
                        << high.id >>, getOptimizationAction(high),
                        getOptimizationValue(high), "smart_fallback") >>
            ELSE << >>
        hvacIdx == FindByTypeAndState(devs, "hvac", TRUE)
        precool ==
            IF InPeakWindow(currentHour) /\ hvacIdx # 0
               /\ GT(devs[hvacIdx].targetTemp, 70)
            THEN << Rec("smart_peak_precool", "hvac", 180, "high", "easy", Minutes(1),
                        << devs[hvacIdx].id >>, "set_temperature",
                        NumStr(devs[hvacIdx].targetTemp - 3), "smart_fallback") >>
            ELSE << >>
        applIdx == FindByTypeAndState(devs, "appliance", FALSE)
        schedule ==
            IF currentHour >= 20 /\ applIdx # 0
            THEN << Rec("smart_late_schedule", "appliances", 95, "medium", "easy",
                        Minutes(2), << devs[applIdx].id >>, "schedule",
                        Text("23:00"), "smart_fallback") >>
            ELSE << >>
        found == highUsage \o precool \o schedule \o BrightLightRecs(devs, Len(devs))
    IN IF Len(found) = 0
       THEN << Rec("smart_general", "general", 25, "low", "easy", Minutes(1),
                   << >>, "monitor", Text("continue"), "smart_fallback") >>
       ELSE found

\* WatsonxService.getFallbackRecommendations
getFallbackRecommendations(currentHour, devs) ==
    LET hvacIdx == FindByTypeAndState(devs, "hvac", TRUE)
        peak ==
            IF InPeakWindow(currentHour) /\ hvacIdx # 0
            THEN << Rec("fallback_peak_hvac", "hvac", 125, "high", "easy", Minutes(5),
                        << devs[hvacIdx].id >>, "set_temperature", NumStr(68), "") >>
            ELSE << >>
        applIdx == FindByTypeAndState(devs, "appliance", FALSE)
        shift ==
            IF currentHour >= 20 /\ applIdx # 0
            THEN << Rec("fallback_load_shift", "appliances", 85, "medium", "easy",
                        Minutes(2), << devs[applIdx].id >>, "schedule",
                        Text("23:00"), "") >>
            ELSE << >>
    IN peak \o shift

----------------------------------------------------------------------------
(* Scoring and ranking.  Scores are in tenths; the composite score is
   scaled by CompositeScale. *)

CompositeScale == 60000

\* draw above which an affected device adds to the urgency, in watts
HighPowerThreshold == 3000

\* EnergyOptimizationAgent.calculateUrgencyScore
calculateUrgencyScore(rec, currentHour) ==
    LET prePeak == IF rec.category = "hvac" /\ currentHour >= 16 /\ currentHour <= 18
                   THEN 3 ELSE 0
        offPeak == IF rec.category = "appliances" /\ currentHour >= 21 /\ currentHour <= 23
                   THEN 2 ELSE 0
        savings == IF GT(rec.potentialSavings, 100) THEN 2 ELSE 0
        deviceState == IF \E k \in 1 .. Len(rec.affected_devices) :
                             GT(rec.affected_devices[k].current_power, HighPowerThreshold)
                       THEN 2 ELSE 0
    IN Min(10, 5 + prePeak + offPeak + savings + deviceState)

\* EnergyOptimizationAgent.calculateFeasibilityScore
calculateFeasibilityScore(rec) ==
    LET difficulty == CASE rec.difficulty = "easy" -> 2
                        [] rec.difficulty = "hard" -> -3
                        [] OTHER -> 0
        availability == IF \E k \in 1 .. Len(rec.affected_devices) :
                              ~rec.affected_devices[k].is_on /\ rec.action # "turn_on"
                        THEN -2 ELSE 0
    IN Max(1, Min(10, 8 + difficulty + availability))

\* EnergyOptimizationAgent.assessComfortImpact
assessComfortImpact(rec) ==
    CASE rec.category = "hvac" -> 7
      [] rec.category = "lighting" -> 3
      [] rec.category = "appliances" -> 1
      [] rec.category = "water_heater" -> 4
      [] OTHER -> 3

\* EnergyOptimizationAgent.estimateImplementationTime
estimateImplementationTime(rec) ==
    CASE rec.action = "set_temperature" -> Minutes(2)
      [] rec.action = "set_brightness" -> Minutes(1)
      [] rec.action = "schedule" -> Minutes(5)
      [] rec.action = "turn_off" -> Seconds(30)
      [] rec.action = "turn_on" -> Seconds(30)
      [] OTHER -> Minutes(5)

\* timeStr.match is not a function when the value is a number
parseTimeThrows(t) == t.unit = "number"

\* EnergyOptimizationAgent.parseTimeToMinutes
parseTimeToMinutes(t) ==
    CASE t.unit = "minute" -> t.n
      [] t.unit = "second" -> (t.n + 59) \div 60
      [] OTHER -> 5

\* x || fallback for a number
OrElse(x, fallback) == IF Truthy(x) THEN x ELSE fallback

\* EnergyOptimizationAgent.calculateCompositeScore, times CompositeScale
calculateCompositeScore(rec) ==
    LET savings == Min(200, OrElse(rec.potentialSavings, 0))
        urgency == OrElse(rec.urgency_score, 5)
        feasibility == OrElse(rec.feasibility_score, 7)
        comfort == 10 - OrElse(rec.comfort_impact, 3)
        minutes == OrElse(parseTimeToMinutes(rec.estimated_implementation_time), 5)
    IN 90 * savings + 1500 * urgency + 1200 * feasibility + 900 * comfort
         + 200 * (30 - Min(30, minutes))

\* rec.devices.map(find).filter(Boolean): the devices found, as they are now
RECURSIVE AffectedDevices(_, _, _)
AffectedDevices(ids, n, devs) ==
    IF n = 0 THEN << >>
    ELSE LET i == FindDevice(devs, ids[n])
             rest == AffectedDevices(ids, n - 1, devs)
         IN IF i = 0 THEN rest
            ELSE Append(rest, [id |-> devs[i].id, type |-> devs[i].type,
                               current_power |-> devs[i].currentPower,
                               is_on |-> devs[i].isOn])

\* EnergyOptimizationAgent.enhanceRecommendations: the scores are computed from
\* the recommendation as received; affected_devices is attached afterwards
enhanceRecommendations(recs, currentHour, devs) ==
    [i \in 1 .. Len(recs) |->
        [recs[i] EXCEPT
            !.urgency_score = calculateUrgencyScore(recs[i], currentHour),
            !.feasibility_score = calculateFeasibilityScore(recs[i]),
            !.comfort_impact = assessComfortImpact(recs[i]),
            !.estimated_implementation_time =
                IF recs[i].estimatedTime.unit = "absent"
                THEN estimateImplementationTime(recs[i])
                ELSE recs[i].estimatedTime,
            !.affected_devices =
                AffectedDevices(recs[i].devices, Len(recs[i].devices), devs)]]

\* insertion of rec into a list sorted by non-increasing composite score,
\* after the entries that compare equal (the sort is stable)
RECURSIVE InsertByScore(_, _)
InsertByScore(sorted, rec) ==
    IF sorted = << >> THEN << rec >>
    ELSE IF rec.composite_score > Head(sorted).composite_score
         THEN << rec >> \o sorted
         ELSE << Head(sorted) >> \o InsertByScore(Tail(sorted), rec)

\* recs.sort((a, b) => b.composite_score - a.composite_score)
RECURSIVE SortByScore(_, _)
SortByScore(recs, n) ==
    IF n = 0 THEN << >> ELSE InsertByScore(SortByScore(recs, n - 1), recs[n])

\* EnergyOptimizationAgent.prioritizeRecommendations
prioritizeRecommendations(recs) ==
    LET scored == [i \in 1 .. Len(recs) |->
                     [recs[i] EXCEPT !.composite_score = calculateCompositeScore(recs[i])]]
        sorted == SortByScore(scored, Len(scored))
    IN [i \in 1 .. Len(sorted) |->
          [sorted[i] EXCEPT
              !.priority = IF sorted[i].priority # "" THEN sorted[i].priority
                           ELSE IF sorted[i].composite_score * 10 > 8 * CompositeScale
                                THEN "high"
                           ELSE IF sorted[i].composite_score * 10 > 6 * CompositeScale
                                THEN "medium"
                           ELSE "low",
              !.rank = i]]

\* prioritizeRecommendations throws when an estimated time is not a string
prioritizeThrows(recs) ==
    \E i \in 1 .. Len(recs) : parseTimeThrows(recs[i].estimated_implementation_time)

----------------------------------------------------------------------------
(* Fractions for unrounded quotients: d = 0 is Infinity (n > 0) or NaN (n = 0) *)

RECURSIVE Gcd(_, _)
Gcd(a, b) == IF b = 0 THEN a ELSE Gcd(b, a % b)

\* n / d in lowest terms
Frac(n, d) ==
    LET g == Gcd(n, d) IN
    IF g = 0 THEN [n |-> 0, d |-> 0] ELSE [n |-> n \div g, d |-> d \div g]

\* product of two fractions, cancelling before multiplying
FracTimes(x, y) ==
    LET a == Frac(x.n, y.d)
        b == Frac(y.n, x.d)
    IN Frac(a.n * b.n, a.d * b.d)
FracGT(x, c) == (x.d > 0 /\ x.n > c * x.d) \/ (x.d = 0 /\ x.n > 0)
FracLT(x, c) == x.d > 0 /\ x.n < c * x.d
FracFalsy(x) == x.n = 0

\* EnergyPredictionAgent.calculatePeakProbability, in tenths
calculatePeakProbability(h, usage) ==
    LET isPeakHour == (h >= 7 /\ h <= 9) \/ (h >= 17 /\ h <= 21)
    IN Min(10, 1 + (IF isPeakHour THEN 6 ELSE 0) + (IF FracGT(usage, 3000) THEN 3 ELSE 0))

\* a forecast point; confidence in hundredths, peak_probability in tenths
Point(h, usage, confidence, source) ==
    [hour |-> h, predictedUsage |-> usage, confidence |-> confidence,
     peak_probability |-> calculatePeakProbability(h, usage), source |-> source]

\* EnergyOptimizationAgent.generateRuleBasedRecommendations: raw, unranked
RECURSIVE RuleLightRecs(_, _)
RuleLightRecs(devs, n) ==
    IF n = 0 THEN << >>
    ELSE LET d == devs[n]
             rest == RuleLightRecs(devs, n - 1)
         IN IF d.type = "lighting" /\ d.isOn /\ GT(d.brightness, 80)
            THEN Append(rest, Rec("rule_light_" \o d.id, "lighting", 30, "low", "easy",
                                  Seconds(30), << d.id >>, "set_brightness",
                                  NumStr(75), "rule_based"))
            ELSE rest

generateRuleBasedRecommendations(devs, preds) ==
    LET hvacIdx == FindByTypeAndState(devs, "hvac", TRUE)
        peaks == \E i \in 1 .. Len(preds) : preds[i].peak_probability > 7
        hvac ==
            IF hvacIdx # 0 /\ peaks
            THEN << Rec("rule_hvac_opt", "hvac", 150, "high", "easy", Minutes(2),
                        << devs[hvacIdx].id >>, "set_temperature",
                        IF IsNum(devs[hvacIdx].targetTemp)
                        THEN Num(devs[hvacIdx].targetTemp - 2)
                        ELSE Text("NaN"), "rule_based") >>
            ELSE << >>
    IN hvac \o RuleLightRecs(devs, Len(devs))

----------------------------------------------------------------------------
(* Applying a recommendation *)

\* recommendations.find(r => r.id === id): index or 0
FindRec(recs, id) ==
    IF \E i \in 1 .. Len(recs) : recs[i].id = id
    THEN CHOOSE i \in 1 .. Len(recs) :
            /\ recs[i].id = id
            /\ \A j \in 1 .. (i - 1) : recs[j].id # id
    ELSE 0

\* a removal that drops the head of the list, whatever its id
RemoveHead(recs, id) == IF recs = << >> THEN recs ELSE Tail(recs)

\* recommendations.filter(r => r.id !== id)
RemoveById(recs, id) == SelectSeq(recs, LAMBDA r : r.id # id)

\* the for-of loop over recommendation.devices from position k on: every
\* command is issued in order until one reports failure
RECURSIVE ControlEach(_, _, _, _, _)
ControlEach(devs, ids, k, action, value) ==
    IF k > Len(ids)
    THEN [devices |-> devs, success |-> TRUE, events |-> << >>]
    ELSE LET r == ControlResult(devs, ids[k], action, value) IN
         IF ~r.success
         THEN [devices |-> r.devices, success |-> FALSE, events |-> r.events]
         ELSE LET rest == ControlEach(r.devices, ids, k + 1, action, value) IN
              [devices |-> rest.devices, success |-> rest.success,
               events |-> r.events \o rest.events]

\* the guarded loop made all-or-nothing: a failed command puts the devices
\* back as they were before the first one
ControlAllRollingBack(devs, rec) ==
    IF rec.action # ""
    THEN LET r == ControlEach(devs, rec.devices, 1, rec.action, rec.value) IN
         IF r.success THEN r ELSE [r EXCEPT !.devices = devs]
    ELSE [devices |-> devs, success |-> TRUE, events |-> << >>]

\* the guarded loop with the thrown error swallowed: the application goes on
\* as if every command had succeeded
ControlAllIgnoringFailure(devs, rec) ==
    IF rec.action # ""
    THEN [ControlEach(devs, rec.devices, 1, rec.action, rec.value) EXCEPT !.success = TRUE]
    ELSE [devices |-> devs, success |-> TRUE, events |-> << >>]

\* if (deviceControlCallback && recommendation.devices && recommendation.action)
\* { for (...) } : the commands of one application
ControlAll(devs, rec) ==
    IF rec.action # ""
    THEN ControlEach(devs, rec.devices, 1, rec.action, rec.value)
    ELSE [devices |-> devs, success |-> TRUE, events |-> << >>]

\* the counter set to the savings of the last application, not raised by them
CreditSavingsOverwrite(total, rec) == OrElse(rec.potentialSavings, 0)

\* savingsTracked += recommendation.potentialSavings || 0
CreditSavings(total, rec) == total + OrElse(rec.potentialSavings, 0)

\* EnergyOptimizationAgent.applyRecommendation with the orchestrator's
\* controlDevice as the device-control callback
applyRecommendation(recommendationId) ==
    LET i == FindRec(recommendations, recommendationId) IN
    IF i = 0
    THEN /\ ret' = [op |-> "applyRecommendation", success |-> FALSE, threw |-> FALSE]
         /\ bcast' = << >>
         /\ commandCount' = commandCount + 1
         /\ UNCHANGED <<devVars, histVars, clockVars, optVars, fcVars, startup, initialPass>>
         /\ UNCHANGED <<monVars, llmVars, healthVars, apiKey>>
    ELSE LET rec == recommendations[i]
             r == ControlAll(devices, rec)
         IN /\ devices' = r.devices
            /\ bcast' = r.events
            /\ commandCount' = commandCount + 1
            /\ ret' = [op |-> "applyRecommendation", success |-> r.success,
                       threw |-> FALSE]
            /\ IF r.success
               THEN /\ appliedRecommendations' = Append(appliedRecommendations, rec)
                    /\ savingsTracked' = CreditSavings(savingsTracked, rec)
                    /\ recommendations' = RemoveById(recommendations, recommendationId)
               ELSE UNCHANGED <<appliedRecommendations, savingsTracked, recommendations>>
            /\ UNCHANGED <<histVars, clockVars, optCycle, fcVars, startup, initialPass>>
            /\ UNCHANGED <<monVars, llmVars, healthVars, apiKey>>

----------------------------------------------------------------------------
(* Orchestrator operations on the device / reading store *)

ControlActions == {"toggle", "turn_on", "turn_off", "set_temperature",
                   "set_brightness", "schedule"}

ControlValues == {NullValue, Num(0), NumStr(50)}

NoRet == [op |-> "none", success |-> TRUE, threw |-> FALSE]

\* one device after a tick with random factor rf (percent) at hour h
TickDevice(device, h, rf) ==
    IF device.isOn
    THEN [device EXCEPT !.currentPower =
              RoundDiv1000(getBaseUsage(device.type) * getTimeMultiplier(h) * rf)]
    ELSE [device EXCEPT !.currentPower = 0]

\* truncation that keeps the first readings instead of the last
sliceKeepOldest(readings, capacity) ==
    IF Len(readings) > capacity THEN SubSeq(readings, 1, capacity) ELSE readings

\* push, then keep the last HistoryCapacity readings
slice(readings, capacity) ==
    IF Len(readings) > capacity
    THEN SubSeq(readings, Len(readings) - capacity + 1, Len(readings))
    ELSE readings

MakeReading(devs, seq, h) ==
    [seq |-> seq, hour |-> h, totalPower |-> TotalPower(devs),
     devices |-> [i \in 1 .. Len(devs) |->
                    [id |-> devs[i].id, power |-> devs[i].currentPower,
                     isOn |-> devs[i].isOn]]]

\* RealEnergyManagementOrchestrator.updateDeviceReadings with the random
\* factors rf (one per device)
updateDeviceReadings(rf) ==
    LET devs == [i \in 1 .. Len(devices) |-> TickDevice(devices[i], hour, rf[i])]
        reading == MakeReading(devs, tickCount + 1, hour)
    IN /\ devices' = devs
       /\ energyReadings' = slice(Append(energyReadings, reading), HistoryCapacity)
       /\ tickCount' = tickCount + 1
       /\ bcast' = << "energy_update" >>
       /\ ret' = [NoRet EXCEPT !.op = "updateDeviceReadings"]
       /\ UNCHANGED <<commandCount, clockVars, optVars, fcVars, startup, initialPass>>
       /\ UNCHANGED <<monVars, llmVars, healthVars, apiKey>>

\* RealEnergyManagementOrchestrator.controlDevice
controlDevice(deviceId, action, value) ==
    LET r == ControlResult(devices, deviceId, action, value) IN
    /\ devices' = r.devices
    /\ bcast' = r.events
    /\ ret' = [op |-> "controlDevice", success |-> r.success, threw |-> FALSE]
    /\ commandCount' = commandCount + 1
    /\ UNCHANGED <<histVars, clockVars, optVars, fcVars, startup, initialPass>>
    /\ UNCHANGED <<monVars, llmVars, healthVars, apiKey>>

\* the wall clock reaches the next hour
AdvanceHour ==
    /\ hoursElapsed < MaxHoursElapsed
    /\ hoursElapsed' = hoursElapsed + 1
    /\ hour' = (hour + 1) % 24
    /\ bcast' = << >>
    /\ ret' = [NoRet EXCEPT !.op = "AdvanceHour"]
    /\ UNCHANGED <<devVars, histVars, commandCount, optVars, fcVars, startup, initialPass>>
    /\ UNCHANGED <<monVars, llmVars, healthVars, apiKey>>

----------------------------------------------------------------------------
(* Optimization Agent cycles *)

\* what the LLM call of a cycle yields: ok = FALSE is every failure
\* (unconfigured, credentials, request, timeout, text that is not JSON or
\* lacks the expected array); ok = TRUE carries the parsed array
NoCycle == [pc |-> "idle", mode |-> "", hour |-> 0]

LlmFailure == [ok |-> FALSE, list |-> << >>]
LlmAnswer(list) == [ok |-> TRUE, list |-> list]

aiHvac == Rec("rec_001", "hvac", 125, "high", "easy", Minutes(5),
              << "hvac_001" >>, "set_temperature", NumStr(68), "")
aiLightsOff == Rec("rec_002", "lighting", Undefined, "", "medium", NoTime,
                   << "lighting_001", GhostId >>, "turn_off", NullValue, "")
aiDuplicateId == Rec("rec_001", "appliances", 60, "low", "hard", Minutes(20),
                     << "washer_001" >>, "turn_on", NullValue, "")
aiNumericTime == Rec("rec_003", "hvac", 50, "low", "easy", NumberTime(5),
                     << "hvac_001" >>, "set_temperature", NumStr(70), "")

\* LLM outcomes of a recommendation request
LlmRecommendationOutcomes ==
    { LlmFailure,
      LlmAnswer(<< >>),
      LlmAnswer(<< aiLightsOff, aiHvac >>),
      LlmAnswer(<< aiDuplicateId, aiHvac >>),
      LlmAnswer(<< aiNumericTime >>) }

\* startOptimization has supplied the device list
devicesSupplied == startup = "done" \/ optCycle.pc = "waiting"

\* generateRecommendations up to the LLM call: reads the forecast and the hour.
\* What the call does to the LLM client (llmVars) is added by the
\* specifications: either the client's steps or, when the outcome of the call
\* is drawn as an input, nothing
generateRecommendationsBegin ==
    /\ optCycle.pc = "idle"
    /\ startup # "startPredictions"
    /\ optCycle' = [pc |-> "waiting",
                    mode |-> IF Len(predictions) = 0 THEN "immediate" ELSE "ai",
                    hour |-> hour]
    /\ bcast' = << >>
    /\ ret' = [NoRet EXCEPT !.op = "generateRecommendationsBegin"]
    /\ UNCHANGED <<devVars, histVars, commandCount, clockVars, recommendations,
                   appliedRecommendations, savingsTracked, fcVars, startup,
                   initialPass, monVars, healthVars, apiKey>>

\* the list a cycle stores, from the LLM outcome
CycleRecommendations(outcome, mode, currentHour, devs, preds) ==
    LET raw == IF outcome.ok THEN outcome.list
               ELSE IF mode = "ai" THEN getFallbackRecommendations(currentHour, devs)
               ELSE generateSmartFallbackRecommendations(devs, currentHour)
        enhanced == enhanceRecommendations(raw, currentHour, devs)
    IN IF prioritizeThrows(enhanced)
       THEN generateRuleBasedRecommendations(devs, preds)
       ELSE prioritizeRecommendations(enhanced)

\* generateRecommendations from the LLM outcome to the end of the cycle
generateRecommendationsEnd(outcome) ==
    /\ optCycle.pc = "waiting"
    /\ recommendations' = CycleRecommendations(outcome, optCycle.mode, optCycle.hour,
                                               devices, predictions)
    /\ optCycle' = NoCycle
    /\ startup' = IF startup = "startOptimization" THEN "done" ELSE startup
    /\ agentStatus' = IF startup = "startOptimization"
                      THEN [agentStatus EXCEPT !.optimization = "running"]
                      ELSE agentStatus
    /\ bcast' = << "recommendations_update" >>
    /\ ret' = [op |-> "generateRecommendations", success |-> TRUE, threw |-> FALSE]
    /\ UNCHANGED <<devVars, histVars, commandCount, clockVars, appliedRecommendations,
                   savingsTracked, fcVars, initialPass, monVars, healthReport, apiKey>>

\* a start-up pass that leaves alone the list a regular cycle has stored
InitialListUnlessPresent(found, current) ==
    IF Len(current) > 0 THEN current
    ELSE IF Len(found) > 0 THEN prioritizeRecommendations(found) ELSE current

\* if (recommendations.length > 0) this.recommendations = prioritize...
InitialList(found, current) ==
    IF Len(found) > 0 THEN prioritizeRecommendations(found) ELSE current

\* EnergyOptimizationAgent.generateInitialRecommendations, once the device
\* list has been supplied
generateInitialRecommendations ==
    LET found == generateSmartFallbackRecommendations(devices, hour) IN
    /\ initialPass = "pending"
    /\ devicesSupplied
    /\ recommendations' = InitialList(found, recommendations)
    /\ initialPass' = "done"
    /\ bcast' = IF Len(found) > 0 THEN << "recommendations_update" >> ELSE << >>
    /\ ret' = [op |-> "generateInitialRecommendations", success |-> TRUE,
               threw |-> FALSE]
    /\ UNCHANGED <<devVars, histVars, commandCount, clockVars, appliedRecommendations,
                   savingsTracked, optCycle, fcVars, startup, monVars, llmVars,
                   healthVars, apiKey>>

\* EnergyOptimizationAgent.generateInitialRecommendations while this.devices
\* is not set: the pass is put off by 5 seconds and nothing else happens
generateInitialRecommendationsRetry ==
    /\ initialPass = "pending"
    /\ ~devicesSupplied
    /\ bcast' = << >>
    /\ ret' = [op |-> "generateInitialRecommendations", success |-> FALSE,
               threw |-> FALSE]
    /\ UNCHANGED <<devVars, histVars, commandCount, clockVars, optVars, fcVars,
                   startup, initialPass, monVars, llmVars, healthVars, apiKey>>

----------------------------------------------------------------------------
(* Forecast Agent *)

\* a point as the LLM client returns it: usage in watts, confidence in hundredths
RawPoint(usage, confidence) ==
    [predictedUsage |-> usage, confidence |-> confidence, isNull |-> FALSE]
NullPoint == [predictedUsage |-> Undefined, confidence |-> Undefined, isNull |-> TRUE]

\* EnergyPredictionAgent.generateBaselinePredictions; rf is the random
\* variation 0.9 + Math.random() * 0.2 in percent, the same draw for every point
generateBaselinePredictions(currentHour, rf) ==
    [i \in 1 .. 24 |->
        LET h == (currentHour + i - 1) % 24 IN
        Point(h, Frac(2 * getTimeMultiplier(h) * rf, 1), 70, "baseline")]

\* WatsonxService.getFallbackPredictions; cf is 0.75 + Math.random() * 0.1
getFallbackPredictions(currentHour, rf, cf) ==
    [i \in 1 .. 24 |->
        RawPoint(2 * getTimeMultiplier((currentHour + i - 1) % 24) * rf, cf)]

\* prediction.predictedUsage on a null entry throws
enhanceThrows(aiPredictions) ==
    \E i \in 1 .. Len(aiPredictions) : aiPredictions[i].isNull

\* EnergyPredictionAgent.enhancePredictions: the hour is set from the position
enhancePredictions(aiPredictions, currentHour) ==
    [i \in 1 .. Len(aiPredictions) |->
        LET h == (currentHour + i - 1) % 24
            usage == aiPredictions[i].predictedUsage
        IN [hour |-> h, predictedUsage |-> usage,
            confidence |-> aiPredictions[i].confidence,
            peak_probability |->
                calculatePeakProbability(h, IF IsNum(usage) THEN Frac(usage, 1)
                                            ELSE Frac(0, 0)),
            source |-> ""]]

\* the filter of validatePredictions
IsValidPoint(p) ==
    /\ GT(p.predictedUsage, 0)
    /\ p.predictedUsage < 20000
    /\ GT(p.confidence, 0)
    /\ p.confidence <= 100

\* EnergyPredictionAgent.validatePredictions
validatePredictions(preds) ==
    LET kept == SelectSeq(preds, IsValidPoint) IN
    [i \in 1 .. Len(kept) |->
        [kept[i] EXCEPT
            !.predictedUsage = Frac(Max(500, Min(15000, kept[i].predictedUsage)), 1),
            !.confidence = Max(30, Min(100, kept[i].confidence))]]

\* sum of totalPower over the readings first .. last
RECURSIVE SumPower(_, _, _)
SumPower(readings, first, last) ==
    IF first > last THEN 0
    ELSE SumPower(readings, first, last - 1) + readings[last].totalPower

\* EnergyPredictionAgent.calculateHourlyPatterns for one hour: the average
\* as a fraction, Frac(0, 0) when the hour has no reading
HourlyAverage(readings, h) ==
    LET ofHour == SelectSeq(readings, LAMBDA r : r.hour = h) IN
    Frac(SumPower(ofHour, 1, Len(ofHour)), Len(ofHour))

\* EnergyPredictionAgent.calculateTrendFactor: recentAvg / previousAvg
calculateTrendFactor(readings) ==
    IF Len(readings) < 48 THEN Frac(1, 1)
    ELSE Frac(SumPower(readings, Len(readings) - 23, Len(readings)),
              SumPower(readings, Len(readings) - 47, Len(readings) - 24))

\* EnergyPredictionAgent.generateStatisticalPredictions
generateStatisticalPredictions(readings, currentHour) ==
    [i \in 1 .. 24 |->
        LET h == (currentHour + i - 1) % 24
            avg == HourlyAverage(readings, h)
            historicalAvg == IF FracFalsy(avg) THEN Frac(2000, 1) ELSE avg
            trend == calculateTrendFactor(readings)
        IN Point(h, FracTimes(historicalAvg, trend), 75, "statistical")]

\* the forecast a cycle with enough history stores, from the LLM outcome
CyclePredictions(outcome, startHour, rf, cf, readings, currentHour) ==
    LET ai == IF outcome.ok THEN outcome.list
              ELSE getFallbackPredictions(startHour, rf, cf)
    IN IF enhanceThrows(ai)
       THEN generateStatisticalPredictions(readings, currentHour)
       ELSE validatePredictions(enhancePredictions(ai, startHour))

\* random variation of the baseline and fallback forecasts, in percent
ForecastJitter == {90, 109}

\* draws of the LLM client's fallback forecast: the usage variation in
\* percent and the confidence 0.75 + Math.random() * 0.1 in hundredths
FallbackDraws == {<<90, 75>>, <<109, 84>>}

\* a 24-point answer with out-of-range entries among valid ones
aiMixedForecast ==
    [i \in 1 .. 24 |->
        CASE i = 3 -> RawPoint(0, 85)
          [] i = 5 -> RawPoint(25000, 85)
          [] i = 7 -> RawPoint(1200, 150)
          [] i = 9 -> RawPoint(1200, 0)
          [] i = 11 -> RawPoint(300, 85)
          [] i = 13 -> RawPoint(16000, 10)
          [] i = 15 -> RawPoint(Undefined, 85)
          [] OTHER -> RawPoint(1200, 85)]

\* LLM outcomes of a forecast request; the two-point answer is the shape of
\* the example in the prompt
LlmForecastOutcomes ==
    { LlmFailure,
      LlmAnswer(<< >>),
      LlmAnswer(<< RawPoint(1200, 85), RawPoint(1100, 87) >>),
      LlmAnswer(aiMixedForecast),
      LlmAnswer(<< RawPoint(1200, 85), NullPoint >>) }

\* startPredictions has returned once the first cycle completes
AfterForecastCycle(s) == IF s = "startPredictions" THEN "startOptimization" ELSE s

\* a start-up that marks the Optimization Agent running as soon as it is
\* about to be started
StatusRunningBeforeFirstCycle(s, status) ==
    IF s = "startPredictions"
    THEN [status EXCEPT !.prediction = "running", !.optimization = "running"]
    ELSE status

\* agentStatus.prediction = 'running' once startPredictions has returned
StatusAfterForecastCycle(s, status) ==
    IF s = "startPredictions" THEN [status EXCEPT !.prediction = "running"] ELSE status

\* generatePredictions with fewer than 24 readings: the baseline, at once
generatePredictionsBaseline(rf) ==
    /\ fcCycle.pc = "idle"
    /\ Len(energyReadings) < 24
    /\ predictions' = generateBaselinePredictions(hour, rf)
    /\ startup' = AfterForecastCycle(startup)
    /\ agentStatus' = StatusAfterForecastCycle(startup, agentStatus)
    /\ bcast' = << "predictions_update" >>
    /\ ret' = [op |-> "generatePredictions", success |-> TRUE, threw |-> FALSE]
    /\ UNCHANGED <<devVars, histVars, commandCount, clockVars, optVars, fcCycle,
                   initialPass, monVars, llmVars, healthReport, apiKey>>

\* generatePredictions with enough history, up to the LLM call
generatePredictionsBegin ==
    /\ fcCycle.pc = "idle"
    /\ Len(energyReadings) >= 24
    /\ fcCycle' = [pc |-> "waiting", mode |-> "ai", hour |-> hour]
    /\ bcast' = << >>
    /\ ret' = [NoRet EXCEPT !.op = "generatePredictionsBegin"]
    /\ UNCHANGED <<devVars, histVars, commandCount, clockVars, optVars, predictions,
                   startup, initialPass, monVars, healthVars, apiKey>>

\* generatePredictions from the LLM outcome to the end of the cycle
generatePredictionsEnd(outcome, rf, cf) ==
    /\ fcCycle.pc = "waiting"
    /\ predictions' = CyclePredictions(outcome, fcCycle.hour, rf, cf,
                                       energyReadings, hour)
    /\ fcCycle' = NoCycle
    /\ startup' = AfterForecastCycle(startup)
    /\ agentStatus' = StatusAfterForecastCycle(startup, agentStatus)
    /\ bcast' = << "predictions_update" >>
    /\ ret' = [op |-> "generatePredictions", success |-> TRUE, threw |-> FALSE]
    /\ UNCHANGED <<devVars, histVars, commandCount, clockVars, optVars, initialPass,
                   monVars, healthReport, apiKey>>

----------------------------------------------------------------------------
(* Monitoring Agent (EnergyMonitorAgent).  Of an analysis the model keeps
   ai_insights, anomalies and recommendations; statistical_analysis,
   device_performance and efficiency_trends are derived figures no operation
   reads back *)

\* deviation that triggers a usage anomaly, in percent
anomalyThreshold == 30

\* JSON values of the fields of an analysis answer: an array of n strings, a
\* string of n characters, or no such field
JsonList(n) == [kind |-> "list", n |-> n]
JsonText(n) == [kind |-> "text", n |-> n]
JsonAbsent == [kind |-> "absent", n |-> 0]

\* the object analyzeEnergyPatterns returns; origin records which code built it
AiAnalysis(score, anomalies, issues, origin) ==
    [kind |-> "object", efficiency_score |-> score, anomalies |-> anomalies,
     potential_issues |-> issues, origin |-> origin]

\* JSON.parse of the text "null"
NullAnalysis == [AiAnalysis(Undefined, JsonAbsent, JsonAbsent, "llm") EXCEPT !.kind = "null"]

\* { error: 'AI analysis unavailable' }
ErrorInsights ==
    [AiAnalysis(Undefined, JsonAbsent, JsonAbsent, "agent") EXCEPT !.kind = "error"]

\* WatsonxService.getFallbackAnalysis; the score is 0.75 + Math.random() * 0.2
getFallbackAnalysis == AiAnalysis(85, JsonList(1), JsonList(1), "fallback")

\* what generateText and parseJsonResponse yield for an analysis: ok = FALSE
\* is every failure of generateText and every text JSON.parse rejects
LlmAnalysisAnswer(parsed) == [ok |-> TRUE, list |-> parsed]

LlmAnalysisOutcomes ==
    { LlmFailure,
      \* the requested format
      LlmAnalysisAnswer(AiAnalysis(60, JsonList(1), JsonList(2), "llm")),
      LlmAnalysisAnswer(AiAnalysis(90, JsonList(0), JsonList(0), "llm")),
      \* {}
      LlmAnalysisAnswer(AiAnalysis(Undefined, JsonAbsent, JsonAbsent, "llm")),
      \* potential_issues or anomalies given as a sentence
      LlmAnalysisAnswer(AiAnalysis(80, JsonList(0), JsonText(4), "llm")),
      LlmAnalysisAnswer(AiAnalysis(80, JsonText(4), JsonList(0), "llm")),
      LlmAnalysisAnswer(NullAnalysis) }

\* WatsonxService.analyzeEnergyPatterns: the parsed answer whatever its
\* fields, the fallback when there is none
analyzeEnergyPatterns(outcome) ==
    IF outcome.ok THEN outcome.list ELSE getFallbackAnalysis

Anomaly(type, severity, deviceId) ==
    [type |-> type, severity |-> severity, device_id |-> deviceId]

Abs(x) == IF x < 0 THEN -x ELSE x

\* the device_malfunction anomalies of devices 1 .. n
RECURSIVE MalfunctionsUpTo(_, _)
MalfunctionsUpTo(devs, n) ==
    IF n = 0 THEN << >>
    ELSE IF devs[n].isOn /\ devs[n].currentPower = 0
         THEN Append(MalfunctionsUpTo(devs, n - 1),
                     Anomaly("device_malfunction", "high", devs[n].id))
         ELSE MalfunctionsUpTo(devs, n - 1)

\* the usage_deviation anomaly of detectAnomalies from the sums of the recent
\* (nR readings) and baseline (nB readings) windows:
\* |sumR/nR - sumB/nB| / (sumB/nB) > threshold, cross-multiplied; a zero
\* baseline gives Infinity (anomaly) or NaN (none)
UsageDeviation(sumR, nR, sumB, nB, threshold) ==
    LET diff == Abs(sumR * nB - sumB * nR) IN
    IF diff * 100 > threshold * sumB * nR
    THEN << Anomaly("usage_deviation",
                    IF diff * 2 > sumB * nR THEN "high" ELSE "medium", "") >>
    ELSE << >>

\* the windows compared: slice(-10) against slice(-30, -10)
RecentWindow == 10
BaselineWindow == 20

\* EnergyMonitorAgent.detectAnomalies
detectAnomalies(historicalData, devs) ==
    LET n == Len(historicalData) IN
    IF n < 20 THEN << >>
    ELSE LET firstRecent == n - RecentWindow + 1
             firstBaseline == Max(1, n - RecentWindow - BaselineWindow + 1)
         IN UsageDeviation(SumPower(historicalData, firstRecent, n), RecentWindow,
                           SumPower(historicalData, firstBaseline, firstRecent - 1),
                           firstRecent - firstBaseline, anomalyThreshold)
            \o MalfunctionsUpTo(devs, Len(devs))

\* EnergyMonitorAgent.generateMonitoringRecommendations: one maintenance entry
\* per issue, one efficiency entry under a score of 0.7
generateMonitoringRecommendations(aiAnalysis) ==
    [i \in 1 .. (IF aiAnalysis.potential_issues.kind = "list"
                 THEN aiAnalysis.potential_issues.n ELSE 0) |-> "maintenance"]
    \o (IF IsNum(aiAnalysis.efficiency_score) /\ aiAnalysis.efficiency_score < 70
        THEN << "efficiency" >> ELSE << >>)

\* a truthy field that is not an array has no forEach / join
NotAnArray(field) == field.kind = "text" /\ field.n > 0

\* performAnalysis throws before the analysis is handed over: null answer, or
\* potential_issues.forEach is not a function
analysisThrowsEarly(aiAnalysis) ==
    aiAnalysis.kind = "null" \/ NotAnArray(aiAnalysis.potential_issues)

\* performAnalysis throws after the analysis was handed over:
\* aiAnalysis.anomalies.join is not a function
analysisThrowsLate(aiAnalysis) ==
    ~analysisThrowsEarly(aiAnalysis) /\ NotAnArray(aiAnalysis.anomalies)

Analysis(insights, anomalies, recs) ==
    [ai_insights |-> insights, anomalies |-> anomalies, recommendations |-> recs]

\* the analysis built in the catch block of performAnalysis
fallbackAnalysis == Analysis(ErrorInsights, << >>, << >>)

\* historicalData.length < 10: performAnalysis returns at once
performAnalysisSkipsAt(historicalData) == Len(historicalData) < 10

\* performAnalysis with fewer than 10 readings: returns, nothing published
performAnalysisSkip ==
    /\ monCycle.pc = "idle"
    /\ performAnalysisSkipsAt(energyReadings)
    /\ bcast' = << >>
    /\ ret' = [op |-> "performAnalysis", success |-> TRUE, threw |-> FALSE]
    /\ UNCHANGED <<devVars, histVars, commandCount, clockVars, optVars, fcVars,
                   startup, initialPass, monVars, llmVars, healthVars, apiKey>>

\* performAnalysis up to the LLM call.  What the call does to the LLM client
\* is added by the specifications
performAnalysisBegin ==
    /\ monCycle.pc = "idle"
    /\ Len(energyReadings) >= 10
    /\ monCycle' = [pc |-> "waiting", mode |-> "ai", hour |-> hour]
    /\ bcast' = << >>
    /\ ret' = [NoRet EXCEPT !.op = "performAnalysisBegin"]
    /\ UNCHANGED <<devVars, histVars, commandCount, clockVars, optVars, fcVars,
                   startup, initialPass, lastAnalysis, healthVars, apiKey>>

\* performAnalysis from the LLM outcome on.  historicalData is the orchestrator's
\* own array (getHistoricalData returns this.energyReadings, which ticks push
\* to while it is under capacity) and this.devices is the live list
performAnalysisEnd(outcome) ==
    LET aiAnalysis == analyzeEnergyPatterns(outcome)
        analysis == Analysis(aiAnalysis, detectAnomalies(energyReadings, devices),
                             generateMonitoringRecommendations(aiAnalysis))
    IN /\ monCycle.pc = "waiting"
       /\ monCycle' = NoCycle
       /\ lastAnalysis' = IF analysisThrowsEarly(aiAnalysis) \/ analysisThrowsLate(aiAnalysis)
                          THEN fallbackAnalysis ELSE analysis
       /\ bcast' = IF analysisThrowsLate(aiAnalysis)
                   THEN << "analysis_update", "analysis_update" >>
                   ELSE << "analysis_update" >>
       /\ ret' = [op |-> "performAnalysis", success |-> TRUE, threw |-> FALSE]
       /\ UNCHANGED <<devVars, histVars, commandCount, clockVars, optVars, fcVars,
                      startup, initialPass, healthVars, apiKey>>

----------------------------------------------------------------------------
(* LLM client (WatsonxService), one instance per agent, and the health pass.
   A call of generateText is followed through its two requests: the
   credential refresh of getAccessToken, which has no timeout, and the
   generation request, which times out after 30 seconds.  Time is counted
   in minutes; a token is reused until its refresh point, one minute before
   it expires *)

Agents == {"monitor", "prediction", "optimization"}

\* the LLM client of an agent with no call in flight
IdleClient == [phase |-> "idle", result |-> "none", prompt |-> << >>]

\* a call of generateText settles as "unconfigured", "auth_failed",
\* "request_failed", "timeout" or "text" (a generated text, whatever it holds)
Settled(result) == [IdleClient EXCEPT !.phase = "settled", !.result = result]
Requesting(phase) == [IdleClient EXCEPT !.phase = phase]

\* the call in state c, made with a prompt that describes the devices devs
WithPrompt(c, devs) == [c EXCEPT !.prompt = devs]

\* the refresh point lies this long before the expiry of the token (60000 ms)
RefreshMargin == 1

\* expires_in of the tokens the IAM endpoint issues, where no other is given
TokenLifetime == 60

\* a cached token is reused whatever its age
tokenUsableIgnoringExpiry(token, expiry, t) == token

\* getAccessToken reuses the cached token:
\* this.accessToken && this.tokenExpiry && Date.now() < this.tokenExpiry
tokenUsable(token, expiry, t) == token /\ Truthy(expiry) /\ t < expiry

\* generateText that goes for a token whether or not a key is configured
generateTextNoKeyCheck(key, token) ==
    IF token THEN Requesting("generation") ELSE Requesting("token")

\* generateText up to its first request: without a key it throws at once,
\* with a cached token it posts the generation request, else it posts the
\* credential refresh
generateText(key, token) ==
    IF ~key THEN Settled("unconfigured")
    ELSE IF token THEN Requesting("generation")
    ELSE Requesting("token")

\* requests posted by the step that leads to client state c
RequestsOf(c) == IF c.phase \in {"token", "generation"} THEN 1 ELSE 0

\* an agent calls generateText with a prompt built from the device list
callGenerateText(a) ==
    /\ client[a].phase = "idle"
    /\ client' = [client EXCEPT
                     ![a] = WithPrompt(generateText(apiKey,
                                tokenUsable(accessToken[a], tokenExpiry[a], now)),
                                       devices)]
    /\ netRequests' = netRequests + RequestsOf(client'[a])
    /\ UNCHANGED <<accessToken, tokenExpiry, now>>

\* the cycle of an agent picks up the settled call
returnFromGenerateText(a) ==
    /\ client[a].phase = "settled"
    /\ client' = [client EXCEPT ![a] = IdleClient]
    /\ UNCHANGED <<accessToken, tokenExpiry, now, netRequests>>

\* the outcomes a cycle can see after a call settled with result
OutcomesOf(result, answers) == IF result = "text" THEN answers ELSE {LlmFailure}

\* the IAM endpoint answers the credential refresh of agent a: with a token
\* that expires in expiresIn minutes, after which generateText posts the
\* generation request, or with an error
tokenAnswer(a, ok, expiresIn) ==
    /\ client[a].phase = "token"
    /\ client' = [client EXCEPT
                     ![a] = WithPrompt(IF ok THEN Requesting("generation")
                                       ELSE Settled("auth_failed"), client[a].prompt)]
    /\ accessToken' = [accessToken EXCEPT ![a] = accessToken[a] \/ ok]
    /\ tokenExpiry' = [tokenExpiry EXCEPT
                          ![a] = IF ok THEN now + expiresIn - RefreshMargin
                                 ELSE tokenExpiry[a]]
    /\ netRequests' = netRequests + RequestsOf(client'[a])
    /\ UNCHANGED now
    /\ bcast' = << >>
    /\ ret' = [NoRet EXCEPT !.op = "getAccessToken"]
    /\ UNCHANGED <<devVars, histVars, commandCount, clockVars, optVars, fcVars,
                   startup, initialPass, monVars, healthVars, apiKey>>

\* the generation request of agent a settles with result
generationSettles(a, result) ==
    /\ client[a].phase = "generation"
    /\ client' = [client EXCEPT ![a] = WithPrompt(Settled(result), client[a].prompt)]
    /\ bcast' = << >>
    /\ ret' = [NoRet EXCEPT !.op = "generateText"]
    /\ UNCHANGED <<devVars, histVars, commandCount, clockVars, optVars, fcVars,
                   startup, initialPass, monVars, healthVars, apiKey,
                   accessToken, tokenExpiry, now, netRequests>>

\* WatsonxService.healthCheck; ok is the answer to the refresh it may post
healthCheck(key, token, ok) ==
    IF ~key THEN "degraded"
    ELSE IF token \/ ok THEN "healthy"
    ELSE "unhealthy"

\* an aggregate that reports healthy as soon as one agent is running
getOverallSystemHealthAnyRunning(status) ==
    IF \E a \in DOMAIN status : status[a] = "running" THEN "healthy"
    ELSE "unhealthy"

\* RealEnergyManagementOrchestrator.getOverallSystemHealth
getOverallSystemHealth(status) ==
    IF \A a \in DOMAIN status : status[a] = "running" THEN "healthy"
    ELSE IF \E a \in DOMAIN status : status[a] = "running" THEN "degraded"
    ELSE "unhealthy"

\* RealEnergyManagementOrchestrator.performHealthCheck, a pass whose three
\* health methods have returned; answers[a] is the IAM answer to the refresh
\* of agent a.  A refresh that is never answered leaves the pass unfinished
performHealthCheck(answers) ==
    LET usable == [a \in Agents |-> tokenUsable(accessToken[a], tokenExpiry[a], now)]
        refreshing == {a \in Agents : apiKey /\ ~usable[a]}
        health == [a \in Agents |-> healthCheck(apiKey, usable[a], answers[a])]
        status == [a \in Agents |-> IF health[a] = "healthy" THEN "running"
                                    ELSE "degraded"]
    IN /\ startup = "done"
       /\ agentStatus' = status
       /\ healthReport' = [overall_status |-> getOverallSystemHealth(status),
                           agents |-> health]
       /\ accessToken' = [a \in Agents |->
                             accessToken[a] \/ (a \in refreshing /\ answers[a])]
       /\ tokenExpiry' = [a \in Agents |->
                             IF a \in refreshing /\ answers[a]
                             THEN now + TokenLifetime - RefreshMargin
                             ELSE tokenExpiry[a]]
       /\ UNCHANGED now
       /\ netRequests' = netRequests + Cardinality(refreshing)
       /\ bcast' = << "system_health" >>
       /\ ret' = [op |-> "performHealthCheck", success |-> TRUE, threw |-> FALSE]
       /\ UNCHANGED <<devVars, histVars, commandCount, clockVars, optVars, fcVars,
                      startup, initialPass, monVars, apiKey, client>>

----------------------------------------------------------------------------
(* Initial state: after construction and startRealTimeProcessing up to the
   return of startMonitoring, whose first analysis finds no readings *)

\* no analysis yet (lastAnalysis = null)
NoAnalysis == Analysis([ErrorInsights EXCEPT !.kind = "none"], << >>, << >>)

\* no system_health broadcast yet
NoReport == [overall_status |-> "none", agents |-> [a \in Agents |-> "none"]]


InitStore ==
    /\ devices = initializeMockDevices
    /\ energyReadings = << >>
    /\ tickCount = 0
    /\ commandCount = 0
    /\ hoursElapsed = 0
    /\ bcast = << >>
    /\ ret = NoRet

InitAgents ==
    /\ recommendations = << >>
    /\ appliedRecommendations = << >>
    /\ savingsTracked = 0
    /\ optCycle = NoCycle
    /\ predictions = << >>
    /\ fcCycle = NoCycle
    /\ startup = "startPredictions"
    /\ initialPass = "pending"
    /\ lastAnalysis = NoAnalysis
    /\ monCycle = NoCycle
    /\ client = [a \in Agents |-> IdleClient]
    /\ accessToken = [a \in Agents |-> FALSE]
    /\ tokenExpiry = [a \in Agents |-> 0]
    /\ now = 1
    /\ netRequests = 0
    /\ agentStatus = [monitor |-> "running", prediction |-> "initializing",
                      optimization |-> "initializing"]
    /\ healthReport = NoReport

Init ==
    /\ InitStore
    /\ InitAgents
    /\ apiKey \in BOOLEAN
    /\ hour \in Hours

InitDev ==
    /\ InitStore
    /\ InitAgents
    /\ apiKey = TRUE
    /\ hour \in StoreHours

Tick ==
    /\ tickCount < MaxTicks
    /\ \E rf \in JitterDraws : updateDeviceReadings(rf)

Control ==
    /\ commandCount < MaxCommands
    /\ \E deviceId \in DeviceIds \cup {GhostId}, action \in ControlActions,
          value \in ControlValues :
           controlDevice(deviceId, action, value)

(* Device store specification: ticks and control commands *)
NextDev ==
    \/ Tick
    \/ Control

SpecDev == InitDev /\ [][NextDev]_vars

(* Reading history specification: the tick alone, run past the capacity *)
TickHist ==
    /\ tickCount < MaxHistTicks
    /\ updateDeviceReadings(<<100, 100, 100, 100>>)

NextHist == TickHist

SpecHist == InitDev /\ [][NextHist]_vars

(* Monitoring specification: analysis cycles over given reading histories,
   with ticks in between *)

\* histories: base readings at BaseLevel followed by spike readings
BaseCounts == {9, 19, 20, 30}
SpikeCounts == {0, 1, 4, 10}
BaseLevel == 2000
SpikeLevels == {4000, 1300}

\* bound on the number of readings of the monitoring specification
MaxMonReadings == 32

\* every device switched on by a turn_on command
AllOn(devs) == [i \in 1 .. Len(devs) |-> ApplyControl(devs[i], "turn_on", NullValue)]

\* the store after a tick with every device on
AllOnTicked(devs, h) == [i \in 1 .. Len(devs) |-> TickDevice(AllOn(devs)[i], h, 100)]

\* a history of n readings totalling base and k readings totalling spike
ScenarioHistory(devs, h, n, base, k, spike) ==
    [i \in 1 .. (n + k) |->
        [MakeReading(devs, i, h) EXCEPT !.totalPower = IF i <= n THEN base ELSE spike]]

InitMon ==
    /\ InitAgents
    /\ apiKey = TRUE
    /\ hour = 10
    /\ devices \in {AllOn(initializeMockDevices), AllOnTicked(initializeMockDevices, hour)}
    /\ \E n \in BaseCounts, k \in SpikeCounts, spike \in SpikeLevels :
          /\ energyReadings = ScenarioHistory(devices, hour, n, BaseLevel, k, spike)
          /\ tickCount = n + k
    /\ commandCount = 0
    /\ hoursElapsed = 0
    /\ bcast = << >>
    /\ ret = NoRet

TickMon ==
    /\ tickCount < MaxMonReadings
    /\ updateDeviceReadings(<<100, 100, 100, 100>>)

\* an analysis cycle starts; the outcome of its LLM call is drawn when it ends
MonitorBegin ==
    /\ performAnalysisBegin
    /\ UNCHANGED llmVars

MonitorEnd ==
    /\ \E outcome \in LlmAnalysisOutcomes : performAnalysisEnd(outcome)
    /\ UNCHANGED llmVars

NextMon ==
    \/ TickMon
    \/ performAnalysisSkip
    \/ MonitorBegin
    \/ MonitorEnd

SpecMon == InitMon /\ [][NextMon]_vars

(* Forecast specification: ticks, the passing hour and forecast cycles *)
FcHours == {6, 12, 17}

InitFc ==
    /\ InitStore
    /\ InitAgents
    /\ apiKey = TRUE
    /\ hour \in FcHours

TickFc ==
    /\ tickCount < MaxFcTicks
    /\ updateDeviceReadings(<<100, 100, 100, 100>>)

ForecastBaseline == \E rf \in ForecastJitter : generatePredictionsBaseline(rf)

\* the LLM call failed: the client's own fallback forecast is used
ForecastEndFallback ==
    /\ \E draw \in FallbackDraws : generatePredictionsEnd(LlmFailure, draw[1], draw[2])
    /\ UNCHANGED llmVars

\* the LLM call returned an array
ForecastEndAnswer ==
    /\ \E outcome \in LlmForecastOutcomes \ {LlmFailure} :
          generatePredictionsEnd(outcome, 100, 80)
    /\ UNCHANGED llmVars

\* a forecast cycle with enough history starts; the outcome of its LLM call
\* is drawn when it ends
ForecastBegin ==
    /\ generatePredictionsBegin
    /\ UNCHANGED llmVars

\* the hour turns on a tick boundary of the forecast windows
AdvanceHourFc ==
    /\ Len(energyReadings) % HourTurnEvery = 0
    /\ AdvanceHour

NextFc ==
    \/ TickFc
    \/ AdvanceHourFc
    \/ ForecastBaseline
    \/ ForecastBegin
    \/ ForecastEndFallback
    \/ ForecastEndAnswer

SpecFc == InitFc /\ [][NextFc]_vars

(* Optimization specification: startup, ticks, optimization cycles and
   recommendation applications *)
\* hours the optimization specification starts at: night, midday, the
\* 17-19h peak window and the late evening
OptHours == {3, 10, 17, 21}

InitOpt ==
    /\ InitStore
    /\ InitAgents
    /\ apiKey = TRUE
    /\ hour \in OptHours

\* the first forecast cycle, which startAIAgents awaits before it starts the
\* Optimization Agent
ForecastOpt == generatePredictionsBaseline(100)

TickOpt ==
    /\ tickCount < MaxTicks
    /\ updateDeviceReadings(<<100, 100, 100, 100>>)

\* the LLM call of the cycle has settled, one way or another
OptimizationEnd ==
    /\ \E outcome \in LlmRecommendationOutcomes : generateRecommendationsEnd(outcome)
    /\ UNCHANGED llmVars

\* an optimization cycle starts; the outcome of its LLM call is drawn when it
\* ends
OptimizationBegin ==
    /\ generateRecommendationsBegin
    /\ UNCHANGED llmVars

\* an id no recommendation has
UnknownRecId == "rec_unknown"

\* ids a client can ask to apply: those on display and one that is not
ApplyIds == {recommendations[i].id : i \in 1 .. Len(recommendations)} \cup {UnknownRecId}

\* bound on the number of applications explored
MaxApplications == 1

Apply ==
    /\ commandCount < MaxApplications
    /\ \E recommendationId \in ApplyIds : applyRecommendation(recommendationId)

NextOpt ==
    \/ TickOpt
    \/ ForecastOpt
    \/ OptimizationBegin
    \/ OptimizationEnd
    \/ generateInitialRecommendations
    \/ Apply

SpecOpt == InitOpt /\ [][NextOpt]_vars

(* Peak-hour specification: optimization cycles with and without a forecast,
   around the 17-19h window.  A cycle finds no forecast after a forecast
   cycle whose answer held no point *)
PeakHours == {18, 20}

\* bound on the number of ticks explored by the peak-hour specification
MaxPeakTicks == 24

InitPeak ==
    /\ InitStore
    /\ InitAgents
    /\ apiKey = TRUE
    /\ hour \in PeakHours

TickPeak ==
    /\ tickCount < MaxPeakTicks
    /\ updateDeviceReadings(<<100, 100, 100, 100>>)

ForecastBaselinePeak == generatePredictionsBaseline(100)

\* the forecast cycle ends on the client's fallback or on an empty answer
ForecastEndPeak ==
    /\ \E outcome \in {LlmFailure, LlmAnswer(<< >>)} :
          generatePredictionsEnd(outcome, 90, 75)
    /\ UNCHANGED llmVars

\* the thermostat is turned down or the climate control switched off
ControlPeak ==
    /\ commandCount < MaxCommands
    /\ \E action \in {"turn_off", "set_temperature"} :
          controlDevice("hvac_001", action, NumStr(70))

\* two recommendations alike but for the device: the water heater, which
\* draws more than 3000 W, and the lights
aiTrimHeater == Rec("rec_003", "general", 50, "medium", "medium", Minutes(2),
                    << "water_heater_001" >>, "optimize", Text("auto"), "")
aiTrimLights == [aiTrimHeater EXCEPT !.id = "rec_004", !.devices = << "lighting_001" >>]

OptimizationEndPeak ==
    /\ \E outcome \in {LlmFailure, LlmAnswer(<< aiTrimHeater, aiTrimLights >>)} :
          generateRecommendationsEnd(outcome)
    /\ UNCHANGED llmVars

NextPeak ==
    \/ TickPeak
    \/ ControlPeak
    \/ ForecastBaselinePeak
    \/ ForecastBegin
    \/ ForecastEndPeak
    \/ OptimizationBegin
    \/ OptimizationEndPeak

SpecPeak == InitPeak /\ [][NextPeak]_vars

(* LLM client specification: startup, ticks, the cycles of the three agents
   with their LLM calls followed request by request, and health passes *)

\* bound on the number of ticks explored by the LLM client specification
MaxLlmTicks == 24

\* no new call or health pass starts once this many requests were posted
MaxNetRequests == 3

InitLlm ==
    /\ InitStore
    /\ InitAgents
    /\ apiKey \in BOOLEAN
    /\ hour = 18

\* the continuation of a settled call runs before any timer or network
\* event is handled (promise jobs come before the next task)
NoContinuationPending == \A a \in Agents : client[a].phase # "settled"

TickLlm ==
    /\ NoContinuationPending
    /\ tickCount < MaxLlmTicks
    /\ updateDeviceReadings(<<100, 100, 100, 100>>)

ForecastBaselineLlm ==
    /\ NoContinuationPending
    /\ generatePredictionsBaseline(100)

MonitorSkip ==
    /\ NoContinuationPending
    /\ performAnalysisSkip

MonitorCall ==
    /\ NoContinuationPending
    /\ netRequests < MaxNetRequests
    /\ performAnalysisBegin
    /\ callGenerateText("monitor")

ForecastCall ==
    /\ NoContinuationPending
    /\ netRequests < MaxNetRequests
    /\ generatePredictionsBegin
    /\ callGenerateText("prediction")

OptimizationCall ==
    /\ NoContinuationPending
    /\ netRequests < MaxNetRequests
    /\ generateRecommendationsBegin
    /\ callGenerateText("optimization")

TokenAnswer ==
    /\ NoContinuationPending
    /\ \E a \in Agents, ok \in BOOLEAN : tokenAnswer(a, ok, TokenLifetime)

\* the backend answers the generation request, with a text or an error
GenerationAnswer ==
    /\ NoContinuationPending
    /\ \E a \in Agents, result \in {"request_failed", "text"} :
          generationSettles(a, result)

\* the 30 second timeout of the generation request fires
GenerationTimeout ==
    /\ NoContinuationPending
    /\ \E a \in Agents : generationSettles(a, "timeout")

\* texts the backend returns for an analysis: none that parses, the requested
\* format, {} and an answer with potential_issues as a sentence
LlmAnalysisTexts ==
    { LlmFailure,
      LlmAnalysisAnswer(AiAnalysis(60, JsonList(1), JsonList(2), "llm")),
      LlmAnalysisAnswer(AiAnalysis(Undefined, JsonAbsent, JsonAbsent, "llm")),
      LlmAnalysisAnswer(AiAnalysis(80, JsonList(0), JsonText(4), "llm")) }

MonitorReturn ==
    /\ \E outcome \in OutcomesOf(client["monitor"].result, LlmAnalysisTexts) :
          performAnalysisEnd(outcome)
    /\ returnFromGenerateText("monitor")

ForecastReturn ==
    /\ \E outcome \in OutcomesOf(client["prediction"].result,
                                 {LlmFailure, LlmAnswer(<< >>)}) :
          generatePredictionsEnd(outcome, 90, 75)
    /\ returnFromGenerateText("prediction")

OptimizationReturn ==
    /\ \E outcome \in OutcomesOf(client["optimization"].result,
                                 {LlmFailure, LlmAnswer(<< aiHvac >>)}) :
          generateRecommendationsEnd(outcome)
    /\ returnFromGenerateText("optimization")

HealthPass ==
    /\ NoContinuationPending
    /\ netRequests < MaxNetRequests
    /\ \E answers \in [Agents -> BOOLEAN] : performHealthCheck(answers)

NextLlm ==
    \/ TickLlm
    \/ ForecastBaselineLlm
    \/ MonitorSkip
    \/ MonitorCall
    \/ ForecastCall
    \/ OptimizationCall
    \/ TokenAnswer
    \/ GenerationAnswer
    \/ GenerationTimeout
    \/ MonitorReturn
    \/ ForecastReturn
    \/ OptimizationReturn
    \/ HealthPass

SpecLlm == InitLlm /\ [][NextLlm]_vars

(* The same under the scheduling the code provides: a settled call is picked
   up by its cycle (promise continuation), and a generation request settles
   at the latest by its 30 second timeout.  Nothing makes the IAM endpoint
   answer, and the credential refresh has no timeout *)
SpecLlmFair ==
    /\ SpecLlm
    /\ \A a \in Agents :
          WF_vars(NoContinuationPending /\ generationSettles(a, "timeout"))
    /\ WF_vars(MonitorReturn)
    /\ WF_vars(ForecastReturn)
    /\ WF_vars(OptimizationReturn)

(* Application specification: optimization cycles in the late evening and
   recommendations applied one after another *)

\* bound on the number of applications in a row
MaxApplyCommands == 3

\* an answer naming three devices, the second of which does not exist
aiSwitchOff == Rec("rec_005", "general", 30, "medium", "easy", Minutes(1),
                   << "lighting_001", GhostId, "hvac_001" >>, "turn_off", NullValue, "")

\* an answer that carries no potentialSavings
aiUnpriced == [aiTrimLights EXCEPT !.id = "rec_006", !.potentialSavings = Undefined]

InitApply ==
    /\ InitStore
    /\ InitAgents
    /\ apiKey = TRUE
    /\ hour = 21

OptimizationEndApply ==
    /\ \E outcome \in {LlmFailure, LlmAnswer(<< aiSwitchOff, aiUnpriced, aiHvac >>)} :
          generateRecommendationsEnd(outcome)
    /\ UNCHANGED llmVars

ApplyNext ==
    /\ commandCount < MaxApplyCommands
    /\ \E recommendationId \in ApplyIds : applyRecommendation(recommendationId)

\* actions the switch of controlDevice has no case for, or has a case that
\* depends on the type of the device
InapplicableActions == {"schedule", "optimize", "set_temperature", "set_brightness"}

\* commands that leave some or all devices as they are
ControlApply ==
    /\ commandCount < MaxApplyCommands
    /\ \E deviceId \in DeviceIds, action \in InapplicableActions :
          controlDevice(deviceId, action, NumStr(50))

NextApply ==
    \/ ControlApply
    \/ ForecastOpt
    \/ OptimizationBegin
    \/ OptimizationEndApply
    \/ generateInitialRecommendations
    \/ ApplyNext

SpecApply == InitApply /\ [][NextApply]_vars

(* Credential specification: the calls of one agent (the Monitoring Agent)
   while time passes and the tokens the IAM endpoint issues run out *)

\* bound on the clock, in minutes after the start
MaxNow == 5

\* bound on the number of ticks: the history an analysis cycle needs
MaxTokTicks == 10

\* expires_in of the tokens issued, in minutes
TokenLifetimes == {1, 2, 3}

InitTok ==
    /\ InitStore
    /\ InitAgents
    /\ apiKey = TRUE
    /\ hour = 10

TickTok ==
    /\ NoContinuationPending
    /\ tickCount < MaxTokTicks
    /\ updateDeviceReadings(<<100, 100, 100, 100>>)

\* a minute passes
TimePasses ==
    /\ NoContinuationPending
    /\ now < MaxNow
    /\ now' = now + 1
    /\ bcast' = << >>
    /\ ret' = [NoRet EXCEPT !.op = "timePasses"]
    /\ UNCHANGED <<devVars, histVars, commandCount, clockVars, optVars, fcVars,
                   startup, initialPass, monVars, healthVars, apiKey,
                   client, accessToken, tokenExpiry, netRequests>>

TokenAnswerTok ==
    /\ NoContinuationPending
    /\ \E ok \in BOOLEAN, expiresIn \in TokenLifetimes :
          tokenAnswer("monitor", ok, expiresIn)

NextTok ==
    \/ TickTok
    \/ TimePasses
    \/ MonitorCall
    \/ TokenAnswerTok
    \/ GenerationAnswer
    \/ GenerationTimeout
    \/ MonitorReturn

SpecTok == InitTok /\ [][NextTok]_vars

(* Start-up specification: from construction through startAIAgents, with the
   timers that can fire on the way.  startRealTimeProcessing runs from
   startDeviceUpdates to the first LLM call of startOptimization without
   giving up the thread: the first analysis finds no readings and the first
   forecast is the baseline, so no timer fires in between *)

\* bound on the number of ticks explored by the start-up specification
MaxStartTicks == 2

\* bound on the number of credential refreshes of health passes
MaxStartRequests == 3

InitStart ==
    /\ InitStore
    /\ recommendations = << >>
    /\ appliedRecommendations = << >>
    /\ savingsTracked = 0
    /\ optCycle = NoCycle
    /\ predictions = << >>
    /\ fcCycle = NoCycle
    /\ startup = "startMonitoring"
    /\ initialPass = "pending"
    /\ lastAnalysis = NoAnalysis
    /\ monCycle = NoCycle
    /\ client = [a \in Agents |-> IdleClient]
    /\ accessToken = [a \in Agents |-> FALSE]
    /\ tokenExpiry = [a \in Agents |-> 0]
    /\ now = 1
    /\ netRequests = 0
    /\ agentStatus = [a \in Agents |-> "initializing"]
    /\ healthReport = NoReport
    /\ apiKey = TRUE
    /\ hour \in OptHours

\* a timer callback can run: before startRealTimeProcessing is called, while
\* startOptimization awaits its LLM call, and after the start-up
TimersMayFire == startup \in {"startMonitoring", "done"} \/ optCycle.pc = "waiting"

\* startMonitoring as awaited by startAIAgents: the first analysis, which
\* finds no readings, then agentStatus.monitor = 'running'
startMonitoring ==
    /\ startup = "startMonitoring"
    /\ performAnalysisSkipsAt(energyReadings)
    /\ startup' = "startPredictions"
    /\ agentStatus' = [agentStatus EXCEPT !.monitor = "running"]
    /\ bcast' = << >>
    /\ ret' = [op |-> "startMonitoring", success |-> TRUE, threw |-> FALSE]
    /\ UNCHANGED <<devVars, histVars, commandCount, clockVars, optVars, fcVars,
                   initialPass, monVars, llmVars, healthReport, apiKey>>

\* the first forecast cycle, awaited by startAIAgents, and the cycles of the
\* 5 minute timer
ForecastStart ==
    /\ startup = "startPredictions" \/ (startup # "startMonitoring" /\ TimersMayFire)
    /\ generatePredictionsBaseline(100)

\* the first optimization cycle, called by startAIAgents, and the cycles of
\* the 10 minute timer
OptimizationBeginStart ==
    /\ startup \in {"startOptimization", "done"}
    /\ generateRecommendationsBegin
    /\ UNCHANGED llmVars

\* the 5 minute timer of the Monitoring Agent
MonitorSkipStart ==
    /\ startup # "startMonitoring"
    /\ TimersMayFire
    /\ performAnalysisSkip

TickStart ==
    /\ startup # "startMonitoring"
    /\ TimersMayFire
    /\ tickCount < MaxStartTicks
    /\ updateDeviceReadings(<<100, 100, 100, 100>>)

\* the 2 second timer of the constructor and its 5 second retries
InitialPassStart ==
    /\ TimersMayFire
    /\ generateInitialRecommendations \/ generateInitialRecommendationsRetry

HealthPassStart ==
    /\ netRequests < MaxStartRequests
    /\ \E answers \in [Agents -> BOOLEAN] : performHealthCheck(answers)

NextStart ==
    \/ startMonitoring
    \/ ForecastStart
    \/ OptimizationBeginStart
    \/ OptimizationEnd
    \/ MonitorSkipStart
    \/ TickStart
    \/ InitialPassStart
    \/ HealthPassStart

SpecStart == InitStart /\ [][NextStart]_vars

----------------------------------------------------------------------------
(* Properties of the device store *)

LightingIdx == 3

\* C1: set_brightness to v on a lighting device whose brightness was b > 0
\* leaves currentPower = old currentPower * v / b (100 -> 50 at 200 W gives
\* 100 W).
C1_BrightnessRescalesPower ==
    [][\A v \in ControlValues :
        ( /\ controlDevice("lighting_001", "set_brightness", v)
          /\ IsNum(parseInt(v))
          /\ IsNum(devices[LightingIdx].currentPower)
          /\ GT(devices[LightingIdx].brightness, 0) )
        => ( /\ IsNum(devices'[LightingIdx].currentPower)
             /\ devices'[LightingIdx].currentPower * devices[LightingIdx].brightness
                   = devices[LightingIdx].currentPower * parseInt(v) )]_vars

\* C6: a device that is off draws no power, in every reachable state of the
\* device store.
C6_OffMeansZeroPower ==
    \A i \in 1 .. Len(devices) : ~devices[i].isOn => devices[i].currentPower = 0

\* C8: controlDevice with an id no device has returns a failure result
\* without throwing, changes no device and broadcasts nothing.
C8_UnknownDeviceIsFailure ==
    [][(\E action \in ControlActions, value \in ControlValues :
            controlDevice(GhostId, action, value))
        => ( /\ ret'.op = "controlDevice"
             /\ ~ret'.success
             /\ ~ret'.threw
             /\ devices' = devices
             /\ bcast' = << >> )]_vars

\* C8 witness: a control command has just been refused
C8_Witness ==
    /\ ret.op = "controlDevice"
    /\ ~ret.success
    /\ bcast = << >>
    /\ commandCount > 0

\* C7: after every tick the history holds at most HistoryCapacity readings
\* and they are exactly the most recently produced ones, in production
\* order (the oldest reading is the one evicted).
C7_HistoryIsBoundedFifo ==
    /\ Len(energyReadings) = Min(tickCount, HistoryCapacity)
    /\ \A i \in 1 .. Len(energyReadings) :
          energyReadings[i].seq = tickCount - Len(energyReadings) + i

\* C7 witness: a tick has evicted the oldest reading
C7_Witness ==
    /\ tickCount > HistoryCapacity
    /\ Len(energyReadings) = HistoryCapacity
    /\ energyReadings[1].seq = tickCount - HistoryCapacity + 1
    /\ energyReadings[HistoryCapacity].seq = tickCount

----------------------------------------------------------------------------
(* Properties of the Forecast Agent *)

\* C9: the forecast held after a completed cycle has exactly 24 points whose
\* hours are currentHour, currentHour + 1, ..., currentHour + 23 (mod 24), in
\* that order; currentHour is the hour the cycle read (the present hour or,
\* when the hour turned during the LLM call, the one before).
C9_ForecastHas24ConsecutiveHours ==
    ret.op = "generatePredictions" =>
        /\ Len(predictions) = 24
        /\ \E h \in {hour, (hour + 23) % 24} :
              \A i \in 1 .. Len(predictions) : predictions[i].hour = (h + i - 1) % 24

\* C10: every point of every published forecast has 0.3 <= confidence <= 1.0
\* and 0 < predictedUsage < 20000.
C10_ForecastPointsInBounds ==
    \A i \in 1 .. Len(predictions) :
        /\ predictions[i].confidence >= 30
        /\ predictions[i].confidence <= 100
        /\ FracGT(predictions[i].predictedUsage, 0)
        /\ FracLT(predictions[i].predictedUsage, 20000)

----------------------------------------------------------------------------
(* Properties of the Optimization Agent *)

C3_FailedApplyChangesNothing ==
    [][\A id \in ApplyIds :
        ( /\ applyRecommendation(id)
          /\ \/ FindRec(recommendations, id) = 0
             \/ LET rec == recommendations[FindRec(recommendations, id)]
                IN /\ rec.action # ""
                   /\ \E k \in 1 .. Len(rec.devices) : rec.devices[k] \notin DeviceIds )
        => ( /\ ~ret'.success
             /\ ~ret'.threw
             /\ recommendations' = recommendations
             /\ appliedRecommendations' = appliedRecommendations
             /\ savingsTracked' = savingsTracked )]_vars

\* C3 witness: an application has failed at its second device, after the first
\* one was switched off, and the recommendation is still active
C3_Witness ==
    /\ ret.op = "applyRecommendation"
    /\ ~ret.success
    /\ FindRec(recommendations, "rec_002") # 0
    /\ ~devices[LightingIdx].isOn
    /\ appliedRecommendations = << >>

\* C4: at the end of every completed optimization cycle the active list holds
\* at least one recommendation.
C4_CycleLeavesRecommendation ==
    ret.op = "generateRecommendations" => Len(recommendations) >= 1

\* C5: in every reachable state the active list is ordered by non-increasing
\* composite score and every recommendation's rank is its 1-based position.
C5_RankedByCompositeScore ==
    \A i \in 1 .. Len(recommendations) :
        /\ recommendations[i].rank = i
        /\ IsNum(recommendations[i].composite_score)
        /\ i < Len(recommendations) =>
              recommendations[i].composite_score >= recommendations[i + 1].composite_score

----------------------------------------------------------------------------
(* Monitoring Agent properties *)

\* C11: an analysis over a history of 30 readings of 2000 W followed by one
\* reading of 4000 W, all devices on, lists a usage-deviation anomaly
C11_SpikeIsUsageDeviation ==
    [][(/\ monCycle.pc = "waiting"
        /\ ret'.op = "performAnalysis"
        /\ lastAnalysis'.ai_insights.kind = "object"
        /\ Len(energyReadings) = 31
        /\ \A i \in 1 .. 30 : energyReadings[i].totalPower = 2000
        /\ energyReadings[31].totalPower = 4000
        /\ \A i \in 1 .. Len(devices) : devices[i].isOn)
       => \E i \in 1 .. Len(lastAnalysis'.anomalies) :
             lastAnalysis'.anomalies[i].type = "usage_deviation"]_vars

----------------------------------------------------------------------------
(* Peak-hour fallback *)

\* C12: at hour 18, with the climate-control device on at targetTemp 72, a
\* cycle whose LLM call fails ends - with a forecast or without - on a list
\* holding a fallback recommendation for that device with action
\* set_temperature and a value below 72
C12_PeakFallbackPrecools ==
    [][(/\ generateRecommendationsEnd(LlmFailure)
        /\ optCycle.hour = 18
        /\ \E i \in 1 .. Len(devices) :
              /\ devices[i].id = "hvac_001"
              /\ devices[i].isOn
              /\ devices[i].targetTemp = 72)
       => \E i \in 1 .. Len(recommendations') :
             LET rec == recommendations'[i] IN
             /\ \E k \in 1 .. Len(rec.devices) : rec.devices[k] = "hvac_001"
             /\ rec.action = "set_temperature"
             /\ IsNum(parseInt(rec.value))
             /\ parseInt(rec.value) < 72]_vars

\* a cycle without a forecast has ended on the smart fallback's pre-cool entry
C12_Witness ==
    /\ ret.op = "generateRecommendations"
    /\ hour = 18
    /\ Len(predictions) = 0
    /\ \E i \in 1 .. Len(recommendations) :
          /\ recommendations[i].id = "smart_peak_precool"
          /\ recommendations[i].value = NumStr(69)

----------------------------------------------------------------------------
(* LLM failures, timeouts and the unconfigured client *)

\* C13: whatever the LLM call yields, a cycle of each agent ends without
\* throwing and publishes once; what it publishes is the fallback result
\* unless the call returned a text, and for the analysis it is never an
\* error object nor an answer lacking the expected fields
C13_CycleEndsOnFallback ==
    [][/\ (monCycle.pc = "waiting" /\ monCycle'.pc = "idle") =>
            /\ ~ret'.threw
            /\ bcast' = << "analysis_update" >>
            /\ client["monitor"].result # "text" =>
                   lastAnalysis'.ai_insights.origin = "fallback"
            /\ \/ lastAnalysis'.ai_insights.origin = "fallback"
               \/ /\ lastAnalysis'.ai_insights.kind = "object"
                  /\ IsNum(lastAnalysis'.ai_insights.efficiency_score)
                  /\ lastAnalysis'.ai_insights.anomalies.kind = "list"
                  /\ lastAnalysis'.ai_insights.potential_issues.kind = "list"
       /\ (fcCycle.pc = "waiting" /\ fcCycle'.pc = "idle") =>
            /\ ~ret'.threw
            /\ bcast' = << "predictions_update" >>
            /\ client["prediction"].result # "text" => Len(predictions') = 24
       /\ (optCycle.pc = "waiting" /\ optCycle'.pc = "idle") =>
            /\ ~ret'.threw
            /\ bcast' = << "recommendations_update" >>
            /\ client["optimization"].result # "text" =>
                   \A i \in 1 .. Len(recommendations') :
                      recommendations'[i].id \in
                         {"fallback_peak_hvac", "fallback_load_shift", "smart_high_usage",
                          "smart_peak_precool", "smart_late_schedule", "smart_general",
                          "smart_light_lighting_001"}]_vars

\* C14: every cycle that has started its LLM call completes, even if the
\* backend never answers
C14_EveryCycleCompletes ==
    /\ (monCycle.pc = "waiting") ~> (monCycle.pc = "idle")
    /\ (fcCycle.pc = "waiting") ~> (fcCycle.pc = "idle")
    /\ (optCycle.pc = "waiting") ~> (optCycle.pc = "idle")

\* C15: without an API key no request is ever posted: a call of generateText
\* is settled as unconfigured at once, every health method reports degraded
\* and the analysis published is the client's fallback
C15_NoKeyNoNetwork ==
    ~apiKey =>
        /\ netRequests = 0
        /\ \A a \in Agents :
              \/ client[a].phase = "idle"
              \/ client[a].phase = "settled" /\ client[a].result = "unconfigured"
        /\ \A a \in Agents : healthReport.agents[a] \in {"none", "degraded"}
        /\ lastAnalysis = NoAnalysis \/ lastAnalysis.ai_insights.origin = "fallback"

\* without a key: a health pass has run, an analysis and a recommendation
\* cycle have ended on their fallbacks
C15_Witness ==
    /\ ~apiKey
    /\ healthReport.agents["monitor"] = "degraded"
    /\ lastAnalysis.ai_insights.origin = "fallback"
    /\ \E i \in 1 .. Len(recommendations) : recommendations[i].id = "fallback_peak_hvac"

----------------------------------------------------------------------------
(* Health pass *)

\* C19: the aggregate of a health pass is healthy iff all three agents are
\* running, degraded iff some but not all are, unhealthy iff none is, an
\* agent being running iff its health method reported healthy in the pass
C19_AggregateHealth ==
    ret.op = "performHealthCheck" =>
        LET running == {a \in Agents : agentStatus[a] = "running"} IN
        /\ running = {a \in Agents : healthReport.agents[a] = "healthy"}
        /\ healthReport.overall_status = "healthy" <=> running = Agents
        /\ healthReport.overall_status = "degraded" <=>
              (running # {} /\ running # Agents)
        /\ healthReport.overall_status = "unhealthy" <=> running = {}

\* a pass in which one agent's refresh failed and another holds a token
C19_Witness ==
    /\ ret.op = "performHealthCheck"
    /\ healthReport.overall_status = "degraded"
    /\ \E a \in Agents : healthReport.agents[a] = "unhealthy"

----------------------------------------------------------------------------
(* Urgency score *)

\* C20: of two recommendations of a cycle that differ only in that one has
\* an affected device drawing more than 3000 W and the other has none, the
\* first has the urgency of the second plus 0.2, capped at 1.0
C20_UrgencyCountsHighPowerDevice ==
    \A i, j \in 1 .. Len(recommendations) :
        LET a == recommendations[i]
            b == recommendations[j]
        IN (/\ a.category = b.category
            /\ a.potentialSavings = b.potentialSavings
            /\ a.priority = b.priority
            /\ a.difficulty = b.difficulty
            /\ a.action = b.action
            /\ IsNum(a.urgency_score) /\ IsNum(b.urgency_score)
            /\ \E k \in 1 .. Len(a.affected_devices) :
                  GT(a.affected_devices[k].current_power, HighPowerThreshold)
            /\ \A k \in 1 .. Len(b.affected_devices) :
                  ~GT(b.affected_devices[k].current_power, HighPowerThreshold))
           => a.urgency_score = Min(10, b.urgency_score + 2)

----------------------------------------------------------------------------
(* Snapshots *)

\* C16: a cycle works on the device state it described in its prompt: the
\* list an optimization cycle publishes after a failed call is the one the
\* fallback, the scoring and the device context yield for the devices of
\* the prompt, whatever ticks ran during the wait
C16_CycleUsesPromptSnapshot ==
    [][(/\ optCycle.pc = "waiting"
        /\ optCycle'.pc = "idle"
        /\ client["optimization"].result # "text")
       => recommendations' =
             CycleRecommendations(LlmFailure, optCycle.mode, optCycle.hour,
                                  client["optimization"].prompt, predictions)]_vars

----------------------------------------------------------------------------
(* Publication *)

\* C17: every step that changes the active recommendation list broadcasts
\* recommendations_update
C17_ListChangeIsBroadcast ==
    [][recommendations' # recommendations
       => \E k \in 1 .. Len(bcast') : bcast'[k] = "recommendations_update"]_vars

\* C18: every published forecast point and every published recommendation
\* carries a source tag naming the mode that produced it
C18_ResultsCarrySourceTag ==
    /\ \A i \in 1 .. Len(predictions) : predictions[i].source # ""
    /\ \A i \in 1 .. Len(recommendations) : recommendations[i].source # ""

\* C21: the feasibility score a generation cycle gives a recommendation is
\* 0.8, plus 0.2 when easy or minus 0.3 when hard, minus 0.2 when one of the
\* devices the recommendation refers to is off and the action is not
\* turn_on, clamped to [0.1, 1.0] (scores in tenths)
C21_FeasibilityCountsOffDevice ==
    \A i \in 1 .. Len(recommendations) :
        LET rec == recommendations[i]
            difficulty == CASE rec.difficulty = "easy" -> 2
                            [] rec.difficulty = "hard" -> -3
                            [] OTHER -> 0
            deviceOff == \E k \in 1 .. Len(rec.affected_devices) :
                            ~rec.affected_devices[k].is_on
            availability == IF deviceOff /\ rec.action # "turn_on" THEN -2 ELSE 0
        IN IsNum(rec.feasibility_score) =>
              rec.feasibility_score = Max(1, Min(10, 8 + difficulty + availability))

\* C22: with at least 24 readings in history, a forecast cycle whose LLM call
\* fails publishes the statistical forecast: for each of the next 24 hours
\* the historical average of that hour times the trend factor
C22_FailedCallGivesStatisticalForecast ==
    [][(\E d \in FallbackDraws : generatePredictionsEnd(LlmFailure, d[1], d[2]))
          => /\ Len(energyReadings) >= 24
             /\ predictions' = generateStatisticalPredictions(energyReadings', hour')
             /\ bcast' = << "predictions_update" >>]_vars

\* C23: the analysis a monitoring cycle emits lists a device_malfunction
\* anomaly for every device that is on with zero power when the analysis is
\* made, whatever the length of the history (10 readings or more) and
\* whatever the LLM call returned
C23_OnWithZeroPowerIsAnomaly ==
    [][(monCycle.pc = "waiting" /\ ret'.op = "performAnalysis")
          => \A i \in 1 .. Len(devices) :
                (devices[i].isOn /\ devices[i].currentPower = 0)
                   => \E k \in 1 .. Len(lastAnalysis'.anomalies) :
                         /\ lastAnalysis'.anomalies[k].type = "device_malfunction"
                         /\ lastAnalysis'.anomalies[k].device_id = devices[i].id]_vars

\* C24: a monitoring cycle that finds at least 10 readings hands exactly one
\* analysis to the subscribers, whatever the LLM call returned; a cycle that
\* finds fewer than 10 readings hands over nothing, raises no error and
\* leaves the agent's state as it was
C24_OneAnalysisPerCycle ==
    [][/\ (monCycle.pc = "waiting" /\ ret'.op = "performAnalysis")
             => /\ bcast' = << "analysis_update" >>
                /\ ~ret'.threw
       /\ performAnalysisSkip
             => /\ bcast' = << >>
                /\ ~ret'.threw
                /\ UNCHANGED monVars]_vars

\* C25: a generation request is sent only with a credential that is present
\* and not expired.  A call that posts the generation request without a
\* refresh holds a token whose refresh point (one minute before expiry) is
\* still ahead; any other call posts a refresh first and sends the
\* generation request when the refresh has succeeded; a failed refresh ends
\* the call with no generation request
C25_NoRequestWithStaleCredential ==
    [][\A a \in Agents :
          LET sends == client[a].phase # "generation" /\ client'[a].phase = "generation"
          IN /\ sends => /\ accessToken'[a]
                         /\ now' < tokenExpiry'[a] + RefreshMargin
             /\ (sends /\ client[a].phase = "idle")
                   => accessToken[a] /\ now < tokenExpiry[a]
             /\ (client[a].phase = "idle" /\ client'[a].phase # "idle" /\ apiKey
                   /\ ~(accessToken[a] /\ now < tokenExpiry[a]))
                   => client'[a].phase = "token"
             /\ (sends /\ client[a].phase = "token")
                   => tokenExpiry'[a] + RefreshMargin > now'
             /\ (client[a].phase = "token" /\ client'[a].phase = "settled")
                   => /\ client'[a].result = "auth_failed"
                      /\ netRequests' = netRequests]_vars

\* a call made when the cached token had passed its refresh point has
\* posted a refresh, not the generation request
C25_Witness ==
    /\ client["monitor"].phase = "token"
    /\ accessToken["monitor"]
    /\ now >= tokenExpiry["monitor"]
    /\ netRequests >= 3

\* C26: after any sequence of generation cycles and applications, succeeded
\* or failed, savingsTracked is the sum of potentialSavings (0 where there is
\* none) over the applied log, and a step changes the applied log only by
\* appending to it
C26_SavingsMatchAppliedLog ==
    /\ [](LET sum[k \in 0 .. Len(appliedRecommendations)] ==
                  IF k = 0 THEN 0
                  ELSE sum[k - 1]
                         + (IF IsNum(appliedRecommendations[k].potentialSavings)
                            THEN appliedRecommendations[k].potentialSavings ELSE 0)
          IN savingsTracked = sum[Len(appliedRecommendations)])
    /\ [][\/ appliedRecommendations' = appliedRecommendations
          \/ /\ Len(appliedRecommendations') = Len(appliedRecommendations) + 1
             /\ SubSeq(appliedRecommendations', 1, Len(appliedRecommendations))
                   = appliedRecommendations]_vars

\* C26 witness: three applications, one failed, one of a recommendation with
\* savings and one of a recommendation that carries none
C26_Witness ==
    /\ commandCount = 3
    /\ Len(appliedRecommendations) = 2
    /\ savingsTracked > 0
    /\ \E k \in 1 .. 2 : appliedRecommendations[k].potentialSavings = Undefined
    /\ FindRec(recommendations, "rec_005") # 0
    /\ ~devices[LightingIdx].isOn

\* C27: applyRecommendation commands the devices of the recommendation one at
\* a time in list order and stops at the first one whose command fails (a
\* device that does not exist): the commands before it stay in effect, each
\* with its device_update, and no later device is commanded
C27_StopsAtFirstFailedDevice ==
    [][\A id \in ApplyIds :
        (applyRecommendation(id) /\ FindRec(recommendations, id) # 0
            /\ recommendations[FindRec(recommendations, id)].action # "")
        => LET rec == recommendations[FindRec(recommendations, id)]
               ids == rec.devices
               failing == {k \in 1 .. Len(ids) : ids[k] \notin DeviceIds}
               n == IF failing = {} THEN Len(ids)
                    ELSE (CHOOSE k \in failing : \A j \in failing : k <= j) - 1
               after[j \in 0 .. n] ==
                   IF j = 0 THEN devices
                   ELSE [after[j - 1] EXCEPT
                            ![FindDevice(devices, ids[j])] =
                                ApplyControl(after[j - 1][FindDevice(devices, ids[j])],
                                             rec.action, rec.value)]
           IN /\ devices' = after[n]
              /\ bcast' = [j \in 1 .. n |-> "device_update"]
              /\ ret'.success = (failing = {})
              /\ ~ret'.threw]_vars

\* C27 witness: the application of a recommendation for the lights, a device
\* that does not exist and the climate control has failed: the lights are
\* off, the climate control is still on, one device_update was sent
C27_Witness ==
    /\ ret.op = "applyRecommendation"
    /\ ~ret.success
    /\ bcast = << "device_update" >>
    /\ ~devices[LightingIdx].isOn
    /\ devices[1].isOn
    /\ \E i \in 1 .. Len(recommendations) :
          /\ recommendations[i].devices = << "lighting_001", GhostId, "hvac_001" >>
          /\ recommendations[i].action = "turn_off"

\* C28: controlDevice on a device that exists returns success and broadcasts
\* one device_update whatever the action; an action outside toggle, turn_on,
\* turn_off, set_temperature, set_brightness, set_temperature on a device
\* that is not hvac and set_brightness on a device that is not lighting
\* change no field of any device.  Applying a recommendation whose action is
\* schedule, optimize or monitor therefore succeeds, credits its savings and
\* leaves every device as it was
C28_InapplicableActionChangesNothing ==
    [][/\ \A deviceId \in DeviceIds, action \in InapplicableActions :
             controlDevice(deviceId, action, NumStr(50))
                => LET type == devices[FindDevice(devices, deviceId)].type
                       applies == \/ action \in {"toggle", "turn_on", "turn_off"}
                                  \/ action = "set_temperature" /\ type = "hvac"
                                  \/ action = "set_brightness" /\ type = "lighting"
                   IN /\ ret'.success
                      /\ bcast' = << "device_update" >>
                      /\ ~applies => devices' = devices
       /\ \A id \in ApplyIds :
             (applyRecommendation(id) /\ FindRec(recommendations, id) # 0
                /\ recommendations[FindRec(recommendations, id)].action
                      \in {"schedule", "optimize", "monitor"}
                /\ \A k \in 1 .. Len(recommendations[FindRec(recommendations, id)].devices) :
                      recommendations[FindRec(recommendations, id)].devices[k] \in DeviceIds)
             => LET rec == recommendations[FindRec(recommendations, id)] IN
                /\ ret'.success
                /\ devices' = devices
                /\ bcast' = [k \in 1 .. Len(rec.devices) |-> "device_update"]
                /\ appliedRecommendations' = Append(appliedRecommendations, rec)
                /\ savingsTracked' = savingsTracked
                      + (IF IsNum(rec.potentialSavings) THEN rec.potentialSavings ELSE 0)]_vars

\* C28 witness: a recommendation to schedule the washer was applied first of
\* all: it succeeded with one device_update, its savings were credited and
\* the devices are as they were at the start
C28_Witness ==
    /\ ret.op = "applyRecommendation"
    /\ ret.success
    /\ bcast = << "device_update" >>
    /\ Len(appliedRecommendations) = 1
    /\ appliedRecommendations[1].action = "schedule"
    /\ savingsTracked = appliedRecommendations[1].potentialSavings
    /\ savingsTracked > 0
    /\ devices = initializeMockDevices

----------------------------------------------------------------------------
(* Start-up properties *)

\* C29: at start-up the agents are started in the order monitoring, forecast,
\* optimization, each first cycle completing before the next agent starts: a
\* forecast cycle completes only once the Monitoring Agent is past its first
\* analysis, an optimization cycle begins only with the first forecast
\* published (and reads it), and an agent's status leaves 'initializing' only
\* in the step that completes its own first cycle.
C29_StartupInOrder ==
    /\ [](/\ agentStatus.monitor # "initializing" => startup # "startMonitoring"
          /\ agentStatus.prediction # "initializing" =>
                 startup \in {"startOptimization", "done"} /\ Len(predictions) > 0
          /\ agentStatus.optimization # "initializing" => startup = "done"
          /\ optCycle.pc = "waiting" => startup \in {"startOptimization", "done"})
    /\ [][/\ ret'.op = "generatePredictions" => agentStatus.monitor # "initializing"
          /\ (optCycle.pc = "idle" /\ optCycle'.pc = "waiting") =>
                 /\ agentStatus.monitor # "initializing"
                 /\ agentStatus.prediction # "initializing"
                 /\ Len(predictions) > 0
                 /\ optCycle'.mode = "ai"
          /\ (agentStatus.monitor = "initializing"
               /\ agentStatus'.monitor # "initializing") =>
                 ret'.op = "startMonitoring"
          /\ (agentStatus.prediction = "initializing"
               /\ agentStatus'.prediction # "initializing") =>
                 ret'.op = "generatePredictions" /\ Len(predictions') > 0
          /\ (agentStatus.optimization = "initializing"
               /\ agentStatus'.optimization # "initializing") =>
                 ret'.op = "generateRecommendations" /\ optCycle.pc = "waiting"]_vars

\* the first optimization cycle awaits its LLM call, ticks have begun, and
\* the Optimization Agent is still initializing
C29_Witness ==
    /\ startup = "startOptimization"
    /\ optCycle.pc = "waiting"
    /\ tickCount > 0
    /\ agentStatus = [monitor |-> "running", prediction |-> "running",
                      optimization |-> "initializing"]

\* C30: the start-up pass of the Optimization Agent changes nothing while no
\* device list has been supplied (it only puts itself off); the first time it
\* runs with devices it stores a non-empty, ranked list made of smart-fallback
\* recommendations only, whatever the list held before, publishes it, and it
\* never runs again.
C30_StartupPassReplacesListOnce ==
    [][/\ (ret'.op = "generateInitialRecommendations" /\ ~devicesSupplied) =>
             /\ UNCHANGED <<recommendations, initialPass, devices, agentStatus>>
             /\ bcast' = << >>
       /\ (ret'.op = "generateInitialRecommendations" /\ devicesSupplied) =>
             /\ Len(recommendations') > 0
             /\ \A i \in 1 .. Len(recommendations') :
                   /\ recommendations'[i].source = "smart_fallback"
                   /\ recommendations'[i].rank = i
                   /\ i < Len(recommendations') =>
                         recommendations'[i].composite_score
                            >= recommendations'[i + 1].composite_score
             /\ bcast' = << "recommendations_update" >>
             /\ initialPass' = "done"
       /\ initialPass = "done" => ret'.op # "generateInitialRecommendations"]_vars

\* the pass has just run after the first regular cycle had completed
C30_Witness ==
    /\ ret.op = "generateInitialRecommendations"
    /\ ret.success
    /\ startup = "done"
    /\ initialPass = "done"
    /\ Len(recommendations) > 0

====
